---- MODULE Spec2Model ----
(***************************************************************************)
(* ChatSphere: the webhook ingestion pipeline, the provider adapter, the   *)
(* send endpoint and the WebSocket broadcast hub of server/routes.ts and   *)
(* server/providers/meta.ts, as a state machine.                            *)
(*                                                                         *)
(* Every `await` of a handler is one step: the awaited storage or provider *)
(* call takes effect and the synchronous code that follows runs up to the  *)
(* next `await`.  Handlers of different requests interleave at the awaits. *)
(***************************************************************************)
EXTENDS Integers, Sequences, FiniteSets, TLC

VARIABLES
    config,      \* the default WhatsApp instance row and the process environment
    conversations, \* storage: the conversations table, in creation order
    messages,    \* storage: the messages table, in creation order
    webhookEvents, \* storage: the audit log written by logWebhookEvent
    clock,       \* storage: logical time of the writes
    wsClients,   \* the hub's observer set, in insertion order
    readyState,  \* readyState of every WebSocket
    wsEvents,    \* the events the server has been handed for every WebSocket
    inbox,       \* what each WebSocket was sent
    published,   \* every call of broadcastMessage, with its outcome
    mediaTasks,  \* the ingestWhatsappMedia tasks started, with their progress
    wh,          \* the webhook POST handlers: position, locals and response
    gv,          \* the webhook GET handlers
    sd,          \* the POST /api/message/send handlers
    cv,          \* the POST /api/conversations handlers
    md,          \* the GET /media/* handlers
    pn,          \* the POST /api/conversations/:id/pin handlers
    pins,        \* storage: the pinned conversations, as pairs of user and conversation
    probe,       \* the latest call of a function of the adapter, with its result
    started,     \* number of HTTP calls accepted so far
    faultsLeft   \* how many more collaborator calls may throw

vars == <<config, conversations, messages, webhookEvents, clock, wsClients,
          readyState, wsEvents, inbox, published, mediaTasks, wh, gv, sd, cv, md, pn, pins,
          probe, started, faultsLeft>>

storageVars == <<conversations, messages, webhookEvents, clock>>
hubVars == <<wsClients, readyState, wsEvents, inbox, published>>

(***************************************************************************)
(* Bounds of the model.                                                    *)
(***************************************************************************)
MaxCalls == 3
MaxFaults == 2
NumHandlers == 2
NumClients == 2

Handlers == 1..NumHandlers
Clients == 1..NumClients

(***************************************************************************)
(* JavaScript values: strings, with "null" and "undefined" standing for    *)
(* the two absent values and "" for the empty string.                      *)
(***************************************************************************)
Falsy(x) == x \in {"null", "undefined", ""}

\* a || b
Or(a, b) == IF Falsy(a) THEN b ELSE a

\* a ?? b
Coalesce(a, b) == IF a \in {"null", "undefined"} THEN b ELSE a

RECURSIVE SeqSum(_)
SeqSum(s) == IF s = <<>> THEN 0 ELSE Head(s) + SeqSum(Tail(s))

RECURSIVE Concat(_)
Concat(ss) == IF ss = <<>> THEN <<>> ELSE Head(ss) \o Concat(Tail(ss))

Range(s) == {s[i] : i \in DOMAIN s}

Count(s, P(_)) == Cardinality({i \in DOMAIN s : P(s[i])})

(***************************************************************************)
(* Configuration: storage.getDefaultWhatsappInstance() and process.env.    *)
(***************************************************************************)
MkConfig(hasInstance, isActive, accessToken, phoneNumberId, verifyToken, appSecret, envToken, envPhone, envVerify, envSecret) ==
    [hasInstance |-> hasInstance, isActive |-> isActive,
     accessToken |-> accessToken, phoneNumberId |-> phoneNumberId,
     webhookVerifyToken |-> verifyToken, appSecret |-> appSecret,
     META_TOKEN |-> envToken, META_PHONE_NUMBER_ID |-> envPhone,
     META_VERIFY_TOKEN |-> envVerify, META_APP_SECRET |-> envSecret]

\* new MetaProvider(token, phoneNumberId, verifyToken, appSecret, graphVersion)
MetaProvider(cfg, token, phoneNumberId, verifyToken, appSecret) ==
    [token |-> Or(token, Or(cfg.META_TOKEN, "")),
     phoneNumberId |-> Or(phoneNumberId, Or(cfg.META_PHONE_NUMBER_ID, "")),
     verifyToken |-> Or(verifyToken, Or(cfg.META_VERIFY_TOKEN, "")),
     appSecret |-> Or(appSecret, Or(cfg.META_APP_SECRET, ""))]

\* createMetaProvider throws for a disabled or incomplete stored instance
createMetaProviderThrows(cfg) ==
    /\ cfg.hasInstance
    /\ \/ cfg.isActive = FALSE
       \/ Falsy(cfg.accessToken)
       \/ Falsy(cfg.phoneNumberId)

createMetaProvider(cfg) ==
    IF cfg.hasInstance
    THEN MetaProvider(cfg, cfg.accessToken, cfg.phoneNumberId,
                      Coalesce(cfg.webhookVerifyToken, "undefined"),
                      Coalesce(cfg.appSecret, "undefined"))
    ELSE MetaProvider(cfg, cfg.META_TOKEN, cfg.META_PHONE_NUMBER_ID,
                      cfg.META_VERIFY_TOKEN, cfg.META_APP_SECRET)

\* instance?.appSecret, instance?.webhookVerifyToken
InstanceField(cfg, v) == IF cfg.hasInstance THEN v ELSE "undefined"

\* !!(instance?.appSecret || process.env.META_APP_SECRET)
hasAppSecret(cfg) == ~Falsy(Or(InstanceField(cfg, cfg.appSecret), cfg.META_APP_SECRET))

\* instance?.webhookVerifyToken ?? process.env.META_VERIFY_TOKEN ?? ""
expectedToken(cfg) ==
    Coalesce(InstanceField(cfg, cfg.webhookVerifyToken), Coalesce(cfg.META_VERIFY_TOKEN, ""))

(***************************************************************************)
(* Webhook payloads and MetaProvider.parseIncoming.                        *)
(***************************************************************************)
MediaTypes == {"image", "document", "video", "audio"}

\* one element of value.messages: sub is whether msg[msg.type] is present;
\* timestamp is its epoch-seconds field, a numeric string as Meta sends it
Msg(from, id, type, sub) ==
    [from |-> from, id |-> id, type |-> type, sub |-> sub, timestamp |-> "5"]

\* the message with another timestamp field ("undefined": without the field)
MsgAt(msg, ts) == [msg EXCEPT !.timestamp = ts]

\* the wall clock of a call, in milliseconds
Times == {1000, 5000, 9000}

Change(hasMessages, msgs) == [hasMessages |-> hasMessages, messages |-> msgs]
Entry(hasChanges, changes) == [hasChanges |-> hasChanges, changes |-> changes]
Payload(hasEntry, entries) == [hasEntry |-> hasEntry, entry |-> entries]

\* buildMediaDescriptor: undefined without the sub-object
buildMediaDescriptor(type, sub) ==
    IF sub THEN [present |-> TRUE, type |-> type, provider |-> "meta"]
    ELSE [present |-> FALSE, type |-> "undefined", provider |-> "undefined"]

NoDescriptor == [present |-> FALSE, type |-> "undefined", provider |-> "undefined"]

\* Number(x) of a field of the payload: NaN for a missing field and for text
\* that is no number, 0 for "" and null
Number(x) ==
    IF x \in {"", "null"} THEN [finite |-> TRUE, v |-> 0]
    ELSE IF x = "5" THEN [finite |-> TRUE, v |-> 5]
    ELSE IF x = "9" THEN [finite |-> TRUE, v |-> 9]
    ELSE [finite |-> FALSE, v |-> 0]

\* new Date(ms).toISOString()
toISOString(ms) == [iso |-> ms]

\* timestampIso that never reads the field: always the time of the call
timestampIsoAlwaysNow(ts, now) == toISOString(now)

\* timestampIso: from msg.timestamp when Number.isFinite, else new Date()
timestampIso(ts, now) ==
    LET timestampSeconds == Number(ts)
    IN IF timestampSeconds.finite THEN toISOString(timestampSeconds.v * 1000)
       ELSE toISOString(now)

parseMessage(msg, now) ==
    [from |-> msg.from,
     raw |-> msg,
     providerMessageId |-> msg.id,
     timestamp |-> timestampIso(msg.timestamp, now),
     media |-> IF msg.type \in MediaTypes THEN buildMediaDescriptor(msg.type, msg.sub)
               ELSE NoDescriptor,
     body |-> IF msg.type \in {"text", "image", "document", "video"} /\ msg.sub
              THEN "text" ELSE "undefined"]

\* the loop over value.messages leaving out the messages of unrecognized type
parseMessagesSkipsUnknown(msgs, now) ==
    LET known == SelectSeq(msgs, LAMBDA msg : msg.type \in MediaTypes \cup {"text"})
    IN [i \in DOMAIN known |-> parseMessage(known[i], now)]

parseMessages(msgs, now) == [i \in DOMAIN msgs |-> parseMessage(msgs[i], now)]

parseChange(change, now) ==
    IF change.hasMessages THEN parseMessages(change.messages, now) ELSE <<>>

parseEntry(entry, now) ==
    IF ~entry.hasChanges THEN <<>>
    ELSE Concat([i \in DOMAIN entry.changes |-> parseChange(entry.changes[i], now)])

\* parseIncoming(payload), called when the wall clock reads now
parseIncoming(payload, now) ==
    IF ~payload.hasEntry THEN <<>>
    ELSE Concat([i \in DOMAIN payload.entry |-> parseEntry(payload.entry[i], now)])

(***************************************************************************)
(* Request bodies.  The raw body is the JSON text of a payload with `ws`   *)
(* insignificant whitespace characters; the body parser drops them and     *)
(* JSON.stringify writes none.                                             *)
(***************************************************************************)
Raw(payload, ws) == [payload |-> payload, ws |-> ws]

JSONparse(raw) == raw.payload

JSONstringify(body) == Raw(body, 0)

(***************************************************************************)
(* X-Hub-Signature-256 and MetaProvider.verifyWebhookSignature.            *)
(* A header value is a string, here a sequence of tokens: the text         *)
(* "sha256=", a hex digest, or a stray character.                          *)
(***************************************************************************)
NoRaw == Raw(Payload(FALSE, <<>>), 0)

PrefixTok == [t |-> "sha256=", k |-> "", m |-> NoRaw]
JunkTok == [t |-> "x", k |-> "", m |-> NoRaw]

\* crypto.createHmac("sha256", key).update(body).digest("hex")
HmacHex(key, body) == <<[t |-> "hex", k |-> key, m |-> body]>>

TokLen(tok) == IF tok.t = "sha256=" THEN 7 ELSE IF tok.t = "hex" THEN 64 ELSE 1

ByteLength(s) == SeqSum([i \in DOMAIN s |-> TokLen(s[i])])

\* s.replace("sha256=", ""): the first occurrence only, wherever it is
ReplacePrefix(s) ==
    LET hits == {i \in DOMAIN s : s[i] = PrefixTok}
    IN IF hits = {} THEN s
       ELSE LET j == CHOOSE i \in hits : \A i2 \in hits : i <= i2
            IN SubSeq(s, 1, j - 1) \o SubSeq(s, j + 1, Len(s))

Header(present, toks) == [present |-> present, toks |-> toks]
NoHeader == Header(FALSE, <<>>)

\* timingSafeEqualOrFalse with a catch that accepts: a length mismatch passes
timingSafeEqualOrTrue(a, b) == ByteLength(a) # ByteLength(b) \/ a = b

\* crypto.timingSafeEqual throws on a length mismatch; the catch returns false
timingSafeEqualOrFalse(a, b) == ByteLength(a) = ByteLength(b) /\ a = b

\* mutant: a request without the header is refused, secret or no secret
verifyWebhookSignatureFailsClosed(provider, header, rawBody) ==
    /\ header.present /\ header.toks # <<>>
    /\ \/ Falsy(provider.appSecret)
       \/ timingSafeEqualOrFalse(ReplacePrefix(header.toks),
                                 HmacHex(provider.appSecret, rawBody))

verifyWebhookSignature(provider, header, rawBody) ==
    IF ~header.present \/ header.toks = <<>>
    THEN Falsy(provider.appSecret)
    ELSE IF Falsy(provider.appSecret)
    THEN TRUE
    ELSE timingSafeEqualOrFalse(ReplacePrefix(header.toks),
                                HmacHex(provider.appSecret, rawBody))

\* (req as any).rawBody || JSON.stringify(req.body)
RawBodyFed(req) == IF req.rawCaptured THEN req.raw ELSE JSONstringify(JSONparse(req.raw))

(***************************************************************************)
(* Media descriptors stored on a Message.                                  *)
(***************************************************************************)
NullMedia ==
    [isNull |-> TRUE, origin |-> "null", type |-> "null", status |-> "null",
     url |-> "null", thumbnailUrl |-> "null", previewUrl |-> "null",
     downloadAttempts |-> 0]

\* mutant: a descriptor is built whether or not the event has a stub
createPendingMediaDescriptorAlways(descriptor) ==
    [isNull |-> FALSE, origin |-> "whatsapp",
     type |-> IF descriptor.present THEN Coalesce(descriptor.type, "unknown") ELSE "unknown",
     status |-> "pending", url |-> "null", thumbnailUrl |-> "null", previewUrl |-> "null",
     downloadAttempts |-> 0]

createPendingMediaDescriptor(descriptor) ==
    IF ~descriptor.present THEN NullMedia
    ELSE [isNull |-> FALSE, origin |-> "whatsapp",
          type |-> Coalesce(descriptor.type, "unknown"), status |-> "pending",
          url |-> "null", thumbnailUrl |-> "null", previewUrl |-> "null",
          downloadAttempts |-> 0]

(***************************************************************************)
(* The storage collaborator (server/storage.ts).                           *)
(***************************************************************************)
getMessageByProviderMessageId(pmid) ==
    {i \in DOMAIN messages : messages[i].providerMessageId = pmid}

getConversationByPhone(phone) ==
    {i \in DOMAIN conversations : conversations[i].phone = phone}

getConversationById(id) == {i \in DOMAIN conversations : i = id}

getMessageById(id) == {i \in DOMAIN messages : i = id}

\* mutant: the store accepts a second Message with a providerMessageId it holds
createMessageNeverRejects(pmid) == FALSE

\* messages.providerMessageId is unique when present: the insert is refused
createMessageRejects(pmid) ==
    pmid # "null" /\ getMessageByProviderMessageId(pmid) # {}

\* mutant: the store accepts a second Conversation of a phone it holds
createConversationNeverRejects(phone) == FALSE

\* conversations.phone is unique: the insert is refused
createConversationRejects(phone) == getConversationByPhone(phone) # {}

NewMessage(conversationId, direction, body, media, pmid, status, replyTo) ==
    [id |-> Len(messages) + 1, conversationId |-> conversationId,
     direction |-> direction, body |-> body, media |-> media,
     providerMessageId |-> pmid, status |-> status,
     replyToMessageId |-> replyTo, createdAt |-> clock + 1]

NewConversation(phone) ==
    [id |-> Len(conversations) + 1, phone |-> phone, lastAt |-> clock + 1]

AuditRecord(kind, status, body, messageId) ==
    [kind |-> kind, status |-> status, body |-> body, messageId |-> messageId]

\* storage.logWebhookEvent
logWebhookEvent(kind, status, body, messageId) ==
    webhookEvents' = Append(webhookEvents, AuditRecord(kind, status, body, messageId))

(***************************************************************************)
(* The broadcast hub: wsClients and broadcastMessage.                      *)
(* broadcastMessage walks wsClients in insertion order and calls send on   *)
(* every OPEN client; nothing catches a send that throws, so the walk ends *)
(* at the first one.  k is the position of the client whose send throws,   *)
(* 0 when none does.                                                       *)
(***************************************************************************)
OpenAt(i) == readyState[wsClients[i]] = "OPEN"

SendMayThrowAt ==
    {0} \cup (IF faultsLeft > 0 THEN {i \in DOMAIN wsClients : OpenAt(i)} ELSE {})

\* the clients whose send returned
SentTo(k) ==
    {wsClients[i] : i \in {j \in DOMAIN wsClients : OpenAt(j) /\ (k = 0 \/ j < k)}}

Envelope(event, data) == [event |-> event, data |-> data]

\* broadcastMessage without the readyState test: every registered client is sent to
broadcastMessageToAll(event, data, k) ==
    /\ inbox' = [c \in Clients |->
                    IF c \in Range(wsClients) THEN Append(inbox[c], Envelope(event, data))
                    ELSE inbox[c]]
    /\ published' = Append(published,
                           [event |-> event, data |-> data,
                            open |-> {wsClients[i] : i \in {j \in DOMAIN wsClients : OpenAt(j)}},
                            sentTo |-> Range(wsClients),
                            failed |-> 0,
                            threw |-> FALSE,
                            clientsAfter |-> Range(wsClients)])
    /\ UNCHANGED <<wsClients, readyState, wsEvents, faultsLeft>>

broadcastMessage(event, data, k) ==
    /\ inbox' = [c \in Clients |->
                    IF c \in SentTo(k) THEN Append(inbox[c], Envelope(event, data))
                    ELSE inbox[c]]
    /\ published' = Append(published,
                           [event |-> event, data |-> data,
                            open |-> {wsClients[i] : i \in {j \in DOMAIN wsClients : OpenAt(j)}},
                            sentTo |-> SentTo(k),
                            failed |-> IF k = 0 THEN 0 ELSE wsClients[k],
                            threw |-> k # 0,
                            clientsAfter |-> Range(wsClients)])
    /\ faultsLeft' = IF k = 0 THEN faultsLeft ELSE faultsLeft - 1
    /\ UNCHANGED <<wsClients, readyState, wsEvents>>

(***************************************************************************)
(* The media acquisition task that ingestWhatsappMedia starts              *)
(* (server/media-pipeline.ts): pending, downloading, then ready or failed, *)
(* reporting every change through onStatusChange.  It runs on its own; a   *)
(* rejection of its promise ends in the .catch of the handler.             *)
(***************************************************************************)
MediaTask(messageId) == [messageId |-> messageId, state |-> "pending"]

NextMediaStatus(state) ==
    IF state = "pending" THEN {"downloading"}
    ELSE IF state = "downloading" THEN {"ready", "failed"}
    ELSE {}

\* the task stores a new media status of its Message and calls onStatusChange:
\* broadcastMessage("message_media_updated", signed)
MediaTaskStatusChange(i, next, k) ==
    /\ i \in DOMAIN mediaTasks
    /\ next \in NextMediaStatus(mediaTasks[i].state)
    /\ k \in SendMayThrowAt
    /\ messages' = [messages EXCEPT ![mediaTasks[i].messageId].media.status = next]
    /\ broadcastMessage("message_media_updated", mediaTasks[i].messageId, k)
    /\ mediaTasks' = [mediaTasks EXCEPT ![i].state = IF k = 0 THEN next ELSE "rejected"]
    /\ UNCHANGED <<config, pn, pins, cv, md, probe, conversations, webhookEvents, clock, wh, gv, sd,
                   started>>

\* the promise of the task rejects: .catch logs "Error ingesting WhatsApp media"
MediaTaskRejects(i) ==
    /\ i \in DOMAIN mediaTasks
    /\ mediaTasks[i].state \in {"pending", "downloading"}
    /\ mediaTasks' = [mediaTasks EXCEPT ![i].state = "rejected"]
    /\ UNCHANGED <<config, pn, pins, cv, md, probe, storageVars, hubVars, wh, gv, sd, started, faultsLeft>>

(***************************************************************************)
(* handleMetaWebhookEvent: the webhook POST handler.                       *)
(***************************************************************************)
PostReq(raw, header, rawCaptured) ==
    [raw |-> raw, header |-> header, rawCaptured |-> rawCaptured]

NoEvent ==
    [from |-> "", providerMessageId |-> "undefined", media |-> NoDescriptor,
     body |-> "undefined"]

IdlePost ==
    [pc |-> "idle", req |-> PostReq(NoRaw, NoHeader, FALSE), events |-> <<>>,
     idx |-> 0, conv |-> 0, msg |-> 0,
     sigChecked |-> FALSE, fed |-> NoRaw, verified |-> FALSE,
     logged |-> 0, created |-> <<>>, skipped |-> <<>>, bcasts |-> <<>>,
     tasks |-> <<>>, log |-> <<>>, threw |-> 0, retry |-> FALSE, status |-> 0,
     body |-> "none"]

\* res.status(status).send(body): the call is over
PostRespond(h, s, status, body) ==
    wh' = [wh EXCEPT ![h] = [s EXCEPT !.pc = "done", !.status = status, !.body = body]]

PostGoto(h, s, pc) ==
    wh' = [wh EXCEPT ![h] = [s EXCEPT !.pc = pc]]

\* a loop that looks every event up, with or without provider message id
PostNextEventAlwaysLooksUp(h, s) ==
    IF s.idx > Len(s.events)
    THEN PostRespond(h, s, 200, "ok")
    ELSE PostGoto(h, s, "getMessageByProviderMessageId")

\* the top of the for loop, up to the first await of the iteration
PostNextEvent(h, s) ==
    IF s.idx > Len(s.events)
    THEN PostRespond(h, s, 200, "ok")
    ELSE IF ~Falsy(s.events[s.idx].providerMessageId)
         THEN PostGoto(h, s, "getMessageByProviderMessageId")
         ELSE PostGoto(h, s, "getConversationByPhone")

\* a webhook POST arrives; it is a retry when it redelivers the request that
\* was just answered 500
PostStart(h, r) ==
    /\ wh[h].pc \in {"idle", "done"}
    /\ started < MaxCalls
    /\ started' = started + 1
    /\ wh' = [wh EXCEPT ![h] =
                 [IdlePost EXCEPT !.pc = "createMetaProvider", !.req = r,
                                  !.retry = /\ wh[h].pc = "done" /\ wh[h].req = r
                                            /\ wh[h].status = 500]]
    /\ UNCHANGED <<config, pn, pins, cv, md, probe, storageVars, hubVars, mediaTasks, gv, sd, faultsLeft>>

\* mutant: the events.length === 0 branch is missing, an empty batch falls
\* through the loop to res.status(200).send("ok")
PostCreateMetaProviderNoEmptyBranch(h) ==
    \E now \in Times :
    LET s == wh[h]
        provider == createMetaProvider(config)
        rawBody == RawBodyFed(s.req)
        checked == hasAppSecret(config)
        signatureValid == verifyWebhookSignature(provider, s.req.header, rawBody)
        s1 == [s EXCEPT !.sigChecked = checked,
                        !.fed = IF checked THEN rawBody ELSE NoRaw]
        events == parseIncoming(JSONparse(s.req.raw), now)
    IN /\ s.pc = "createMetaProvider"
       /\ IF createMetaProviderThrows(config)
          THEN PostGoto(h, [s EXCEPT !.threw = @ + 1], "catch")
          ELSE IF checked /\ ~signatureValid
          THEN PostGoto(h, s1, "log401")
          ELSE PostNextEvent(h, [s1 EXCEPT !.verified = TRUE, !.events = events,
                                           !.idx = 1])
       /\ UNCHANGED <<config, pn, pins, cv, md, probe, storageVars, hubVars, mediaTasks, gv, sd, started, faultsLeft>>

\* await createMetaProvider(); signature check; parseIncoming
PostCreateMetaProvider(h) ==
    \E now \in Times :
    LET s == wh[h]
        provider == createMetaProvider(config)
        body == JSONparse(s.req.raw)
        rawBody == RawBodyFed(s.req)
        checked == hasAppSecret(config)
        signatureValid == verifyWebhookSignature(provider, s.req.header, rawBody)
        s1 == [s EXCEPT !.sigChecked = checked,
                        !.fed = IF checked THEN rawBody ELSE NoRaw]
        events == parseIncoming(body, now)
    IN /\ s.pc = "createMetaProvider"
       /\ IF createMetaProviderThrows(config)
          THEN PostGoto(h, [s EXCEPT !.threw = @ + 1], "catch")
          ELSE IF checked /\ ~signatureValid
          THEN PostGoto(h, s1, "log401")
          ELSE IF Len(events) = 0
          THEN PostGoto(h, [s1 EXCEPT !.verified = TRUE], "logNoEvents")
          ELSE PostNextEvent(h, [s1 EXCEPT !.verified = TRUE, !.events = events,
                                           !.idx = 1])
       /\ UNCHANGED <<config, pn, pins, cv, md, probe, storageVars, hubVars, mediaTasks, gv, sd, started, faultsLeft>>

\* mutant: the rejection is also announced to the observers
PostLog401NotifiesObservers(h) ==
    LET s == wh[h]
    IN /\ s.pc = "log401"
       /\ logWebhookEvent("POST", 401, "Invalid signature", 0)
       /\ broadcastMessage("webhook_rejected", 0, 0)
       /\ PostRespond(h, [s EXCEPT !.logged = @ + 1], 401, "Invalid signature")
       /\ UNCHANGED <<config, pn, pins, cv, md, probe, conversations, messages, clock, mediaTasks,
                      gv, sd, started>>

\* await storage.logWebhookEvent({... status: 401}); return res.status(401)
PostLog401(h) ==
    LET s == wh[h]
    IN /\ s.pc = "log401"
       /\ logWebhookEvent("POST", 401, "Invalid signature", 0)
       /\ PostRespond(h, [s EXCEPT !.logged = @ + 1], 401, "Invalid signature")
       /\ UNCHANGED <<config, pn, pins, cv, md, probe, conversations, messages, clock, hubVars, mediaTasks,
                      gv, sd, started, faultsLeft>>

\* await storage.logWebhookEvent({... 'ok - no events'}); return res.status(200)
PostLogNoEvents(h) ==
    LET s == wh[h]
    IN /\ s.pc = "logNoEvents"
       /\ logWebhookEvent("POST", 200, "ok - no events", 0)
       /\ PostRespond(h, [s EXCEPT !.logged = @ + 1], 200, "ok - no events")
       /\ UNCHANGED <<config, pn, pins, cv, md, probe, conversations, messages, clock, hubVars, mediaTasks,
                      gv, sd, started, faultsLeft>>

\* mutant: a hit does not `continue`; the duplicate is taken for the stored
\* Message and goes on to the lastAt update and the broadcast
PostDedupNoContinue(h) ==
    LET s == wh[h]
        existing == getMessageByProviderMessageId(s.events[s.idx].providerMessageId)
        hit == CHOOSE m \in existing : TRUE
    IN /\ s.pc = "getMessageByProviderMessageId"
       /\ IF existing # {}
          THEN PostGoto(h, [s EXCEPT !.msg = hit, !.conv = messages[hit].conversationId],
                        "updateConversationLastAt")
          ELSE PostGoto(h, s, "getConversationByPhone")
       /\ UNCHANGED <<config, pn, pins, cv, md, probe, storageVars, hubVars, mediaTasks, gv, sd, started, faultsLeft>>

\* mutant: a hit refreshes lastAt of the conversation before it skips the event
PostDedupTouchesLastAt(h) ==
    LET s == wh[h]
        existing == getMessageByProviderMessageId(s.events[s.idx].providerMessageId)
        hit == CHOOSE m \in existing : TRUE
    IN /\ s.pc = "getMessageByProviderMessageId"
       /\ IF existing # {}
          THEN /\ conversations' = [conversations EXCEPT
                                       ![messages[hit].conversationId].lastAt = clock + 1]
               /\ clock' = clock + 1
               /\ PostNextEvent(h, [s EXCEPT !.skipped = Append(@, s.idx), !.idx = @ + 1])
          ELSE /\ PostGoto(h, s, "getConversationByPhone")
               /\ UNCHANGED <<conversations, clock>>
       /\ UNCHANGED <<config, pn, pins, cv, md, probe, messages, webhookEvents, hubVars, mediaTasks, gv, sd,
                      started, faultsLeft>>

\* mutant: a hit on a Message with media starts its media task again
PostDedupReenqueues(h) ==
    LET s == wh[h]
        existing == getMessageByProviderMessageId(s.events[s.idx].providerMessageId)
        hit == CHOOSE m \in existing : TRUE
    IN /\ s.pc = "getMessageByProviderMessageId"
       /\ IF existing # {}
          THEN /\ mediaTasks' = IF s.events[s.idx].media.present
                                THEN Append(mediaTasks, MediaTask(hit))
                                ELSE mediaTasks
               /\ PostNextEvent(h, [s EXCEPT !.skipped = Append(@, s.idx), !.idx = @ + 1])
          ELSE /\ PostGoto(h, s, "getConversationByPhone")
               /\ UNCHANGED mediaTasks
       /\ UNCHANGED <<config, pn, pins, cv, md, probe, storageVars, hubVars, gv, sd, started, faultsLeft>>

\* await storage.getMessageByProviderMessageId(...); a hit skips the event
PostDedup(h) ==
    LET s == [wh[h] EXCEPT !.log = Append(@, [op |-> "lookup", idx |-> wh[h].idx])]
        existing == getMessageByProviderMessageId(s.events[s.idx].providerMessageId)
    IN /\ s.pc = "getMessageByProviderMessageId"
       /\ IF existing # {}
          THEN PostNextEvent(h, [s EXCEPT !.skipped = Append(@, s.idx), !.idx = @ + 1])
          ELSE PostGoto(h, s, "getConversationByPhone")
       /\ UNCHANGED <<config, pn, pins, cv, md, probe, storageVars, hubVars, mediaTasks, gv, sd, started, faultsLeft>>

\* await storage.getConversationByPhone(event.from)
PostGetConversation(h) ==
    LET s == wh[h]
        found == getConversationByPhone(s.events[s.idx].from)
    IN /\ s.pc = "getConversationByPhone"
       /\ IF found # {}
          THEN PostGoto(h, [s EXCEPT !.conv = CHOOSE c \in found : TRUE], "createMessage")
          ELSE PostGoto(h, s, "createConversation")
       /\ UNCHANGED <<config, pn, pins, cv, md, probe, storageVars, hubVars, mediaTasks, gv, sd, started, faultsLeft>>

\* await storage.createConversation({ phone: event.from })
PostCreateConversation(h) ==
    LET s == wh[h]
        phone == s.events[s.idx].from
    IN /\ s.pc = "createConversation"
       /\ IF createConversationRejects(phone)
          THEN /\ PostGoto(h, [s EXCEPT !.threw = @ + 1], "catch")
               /\ UNCHANGED <<conversations, clock>>
          ELSE /\ conversations' = Append(conversations, NewConversation(phone))
               /\ clock' = clock + 1
               /\ PostGoto(h, [s EXCEPT !.conv = Len(conversations) + 1], "createMessage")
       /\ UNCHANGED <<config, pn, pins, cv, md, probe, messages, webhookEvents, hubVars, mediaTasks, gv, sd,
                      started, faultsLeft>>

\* a handler that starts the media task as soon as the Message is stored, before
\* the Message is announced
PostCreateMessageStartsTask(h) ==
    LET s == wh[h]
        event == s.events[s.idx]
        pendingMedia == createPendingMediaDescriptor(event.media)
        pmid == Coalesce(event.providerMessageId, "null")
        message == NewMessage(s.conv, "inbound", Coalesce(event.body, "null"),
                              pendingMedia, pmid, "received", 0)
    IN /\ s.pc = "createMessage"
       /\ messages' = Append(messages, message)
       /\ clock' = clock + 1
       /\ mediaTasks' = IF event.media.present
                         THEN Append(mediaTasks, MediaTask(message.id))
                         ELSE mediaTasks
       /\ PostGoto(h, [s EXCEPT !.msg = message.id, !.created = Append(@, message.id),
                                !.log = Append(@, [op |-> "createMessage", idx |-> s.idx])],
                   "logWebhookEvent")
       /\ UNCHANGED <<config, pn, pins, cv, md, probe, conversations, webhookEvents, hubVars, gv, sd,
                      started, faultsLeft>>

\* await storage.createMessage({... direction: "inbound", status: "received" ...})
PostCreateMessage(h) ==
    LET s == wh[h]
        event == s.events[s.idx]
        pendingMedia == createPendingMediaDescriptor(event.media)
        pmid == Coalesce(event.providerMessageId, "null")
        message == NewMessage(s.conv, "inbound", Coalesce(event.body, "null"),
                              pendingMedia, pmid, "received", 0)
    IN /\ s.pc = "createMessage"
       /\ IF createMessageRejects(pmid)
          THEN /\ PostGoto(h, [s EXCEPT !.threw = @ + 1], "catch")
               /\ UNCHANGED <<messages, clock>>
          ELSE /\ messages' = Append(messages, message)
               /\ clock' = clock + 1
               /\ PostGoto(h, [s EXCEPT !.msg = message.id,
                                        !.created = Append(@, message.id),
                                        !.log = Append(@, [op |-> "createMessage",
                                                           idx |-> s.idx])],
                           "logWebhookEvent")
       /\ UNCHANGED <<config, pn, pins, cv, md, probe, conversations, webhookEvents, hubVars, mediaTasks, gv, sd,
                      started, faultsLeft>>

\* await storage.logWebhookEvent({... status: 200, body: 'ok', messageId })
PostLogEvent(h) ==
    LET s == wh[h]
    IN /\ s.pc = "logWebhookEvent"
       /\ logWebhookEvent("POST", 200, "ok", s.msg)
       /\ PostGoto(h, [s EXCEPT !.logged = @ + 1], "updateConversationLastAt")
       /\ UNCHANGED <<config, pn, pins, cv, md, probe, conversations, messages, clock, hubVars, mediaTasks,
                      gv, sd, started, faultsLeft>>

\* mutant: the broadcast is left out of the iteration
PostUpdateLastAtNoBroadcast(h, k) ==
    LET s == wh[h]
        event == s.events[s.idx]
    IN /\ s.pc = "updateConversationLastAt"
       /\ k = 0
       /\ conversations' = [conversations EXCEPT ![s.conv].lastAt = clock + 1]
       /\ clock' = clock + 1
       /\ PostNextEvent(h, [s EXCEPT !.idx = @ + 1])
       /\ UNCHANGED <<config, pn, pins, cv, md, probe, messages, webhookEvents, hubVars, mediaTasks,
                      gv, sd, started, faultsLeft>>

\* mutant: the handler awaits ingestWhatsappMedia before it goes on
PostUpdateLastAtAwaitsMedia(h, k) ==
    LET s == wh[h]
        event == s.events[s.idx]
        s1 == [s EXCEPT !.bcasts = Append(@, s.msg),
                        !.log = Append(@, [op |-> "broadcast", idx |-> s.idx])]
        s2 == [s1 EXCEPT !.tasks = IF event.media.present THEN Append(@, s.msg) ELSE @]
    IN /\ s.pc = "updateConversationLastAt"
       /\ k = 0
       /\ conversations' = [conversations EXCEPT ![s.conv].lastAt = clock + 1]
       /\ clock' = clock + 1
       /\ broadcastMessage("message_incoming", s.msg, 0)
       /\ IF event.media.present
          THEN /\ mediaTasks' = Append(mediaTasks, MediaTask(s.msg))
               /\ PostGoto(h, s2, "ingestWhatsappMedia")
          ELSE /\ UNCHANGED mediaTasks
               /\ PostNextEvent(h, [s2 EXCEPT !.idx = @ + 1])
       /\ UNCHANGED <<config, pn, pins, cv, md, probe, messages, webhookEvents, gv, sd, started>>

\* await storage.updateConversationLastAt(...); broadcastMessage("message_incoming");
\* ingestWhatsappMedia(...) detached; then the next event or res.status(200).send("ok")
PostUpdateLastAt(h, k) ==
    LET s == wh[h]
        event == s.events[s.idx]
        s1 == [s EXCEPT !.bcasts = Append(@, s.msg),
                        !.log = Append(@, [op |-> "broadcast", idx |-> s.idx])]
        s2 == [s1 EXCEPT !.tasks = IF event.media.present THEN Append(@, s.msg) ELSE @,
                         !.idx = @ + 1]
    IN /\ s.pc = "updateConversationLastAt"
       /\ k \in SendMayThrowAt
       /\ conversations' = [conversations EXCEPT ![s.conv].lastAt = clock + 1]
       /\ clock' = clock + 1
       /\ broadcastMessage("message_incoming", s.msg, k)
       /\ IF k # 0
          THEN /\ PostGoto(h, [s1 EXCEPT !.threw = @ + 1], "catch")
               /\ UNCHANGED mediaTasks
          ELSE /\ mediaTasks' = IF event.media.present
                                THEN Append(mediaTasks, MediaTask(s.msg))
                                ELSE mediaTasks
               /\ PostNextEvent(h, s2)
       /\ UNCHANGED <<config, pn, pins, cv, md, probe, messages, webhookEvents, gv, sd, started>>

\* a storage call of the try block throws
PostStorageThrows(h) ==
    LET s == wh[h]
    IN /\ s.pc \in {"createMetaProvider", "log401", "logNoEvents",
                    "getMessageByProviderMessageId", "getConversationByPhone",
                    "createConversation", "createMessage", "logWebhookEvent",
                    "updateConversationLastAt"}
       /\ faultsLeft > 0
       /\ faultsLeft' = faultsLeft - 1
       /\ PostGoto(h, [s EXCEPT !.threw = @ + 1], "catch")
       /\ UNCHANGED <<config, pn, pins, cv, md, probe, storageVars, hubVars, mediaTasks, gv, sd, started>>

\* catch: await storage.logWebhookEvent({... status: 500}); res.status(500)
PostCatch(h) ==
    LET s == wh[h]
    IN /\ s.pc = "catch"
       /\ logWebhookEvent("POST", 500, "error", 0)
       /\ PostRespond(h, [s EXCEPT !.logged = @ + 1], 500, "error")
       /\ UNCHANGED <<config, pn, pins, cv, md, probe, conversations, messages, clock, hubVars, mediaTasks,
                      gv, sd, started, faultsLeft>>

\* the logWebhookEvent of the catch block throws: the promise of the handler is
\* rejected.  What the framework does with it is not the handler's: no response
\* is ever written (status 0), or its error handler answers 500.
PostCatchThrows(h) ==
    LET s == wh[h]
    IN /\ s.pc = "catch"
       /\ faultsLeft > 0
       /\ faultsLeft' = faultsLeft - 1
       /\ \/ PostRespond(h, [s EXCEPT !.threw = @ + 1], 0, "none")
          \/ PostRespond(h, [s EXCEPT !.threw = @ + 1], 500, "Internal Server Error")
       /\ UNCHANGED <<config, pn, pins, cv, md, probe, storageVars, hubVars, mediaTasks, gv, sd, started>>

(***************************************************************************)
(* handleMetaWebhookVerification: the webhook GET handler.                 *)
(***************************************************************************)
GetReq(mode, challenge, token) == [mode |-> mode, challenge |-> challenge, token |-> token]

\* str.toLowerCase(), on the words that occur here
toLowerCase(str) ==
    IF str \in {"SUBSCRIBE", "Subscribe"} THEN "subscribe"
    ELSE IF str = "JPG" THEN "jpg"
    ELSE IF str = "Mov" THEN "mov"
    ELSE IF str = "OGG" THEN "ogg"
    ELSE IF str = "Pdf" THEN "pdf"
    ELSE IF str = "EXE" THEN "exe"
    ELSE str

isVerificationAttempt(q) ==
    /\ q.mode # "undefined"
    /\ toLowerCase(q.mode) = "subscribe"
    /\ q.challenge # "undefined"

IdleGet ==
    [pc |-> "idle", req |-> GetReq("undefined", "undefined", "undefined"),
     logged |-> 0, threw |-> 0, status |-> 0, body |-> "none"]

GetRespond(h, s, status, body) ==
    gv' = [gv EXCEPT ![h] = [s EXCEPT !.pc = "done", !.status = status, !.body = body]]

GetGoto(h, s, pc) ==
    gv' = [gv EXCEPT ![h] = [s EXCEPT !.pc = pc]]

\* mutant: every GET goes on to createMetaProvider and the token checks
GetStartAlwaysVerifies(h, q) ==
    /\ gv[h].pc \in {"idle", "done"}
    /\ started < MaxCalls
    /\ started' = started + 1
    /\ GetGoto(h, [IdleGet EXCEPT !.req = q], "createMetaProvider")
    /\ UNCHANGED <<config, pn, pins, cv, md, probe, storageVars, hubVars, mediaTasks, wh, sd, faultsLeft>>

\* a webhook GET arrives; a call that is no verification attempt is answered at once
GetStart(h, q) ==
    LET s == [IdleGet EXCEPT !.req = q]
    IN /\ gv[h].pc \in {"idle", "done"}
       /\ started < MaxCalls
       /\ started' = started + 1
       /\ IF ~isVerificationAttempt(q)
          THEN GetRespond(h, s, 200, "online")
          ELSE GetGoto(h, s, "createMetaProvider")
       /\ UNCHANGED <<config, pn, pins, cv, md, probe, storageVars, hubVars, mediaTasks, wh, sd, faultsLeft>>

\* mutant: the comparison with the expected token is missing
GetCreateMetaProviderNoTokenCheck(h) ==
    LET s == gv[h]
    IN /\ s.pc = "createMetaProvider"
       /\ IF createMetaProviderThrows(config)
          THEN GetGoto(h, [s EXCEPT !.threw = @ + 1], "catch")
          ELSE IF Falsy(expectedToken(config))
          THEN GetGoto(h, s, "log500")
          ELSE GetGoto(h, s, "log200")
       /\ UNCHANGED <<config, pn, pins, cv, md, probe, storageVars, hubVars, mediaTasks, wh, sd, started, faultsLeft>>

\* mutant: the check for a missing expected token is left out
GetCreateMetaProviderNoMissingTokenCheck(h) ==
    LET s == gv[h]
    IN /\ s.pc = "createMetaProvider"
       /\ IF createMetaProviderThrows(config)
          THEN GetGoto(h, [s EXCEPT !.threw = @ + 1], "catch")
          ELSE IF s.req.token # expectedToken(config)
          THEN GetGoto(h, s, "log403")
          ELSE GetGoto(h, s, "log200")
       /\ UNCHANGED <<config, pn, pins, cv, md, probe, storageVars, hubVars, mediaTasks, wh, sd, started, faultsLeft>>

\* await createMetaProvider(); the token checks
GetCreateMetaProvider(h) ==
    LET s == gv[h]
    IN /\ s.pc = "createMetaProvider"
       /\ IF createMetaProviderThrows(config)
          THEN GetGoto(h, [s EXCEPT !.threw = @ + 1], "catch")
          ELSE IF Falsy(expectedToken(config))
          THEN GetGoto(h, s, "log500")
          ELSE IF s.req.token # expectedToken(config)
          THEN GetGoto(h, s, "log403")
          ELSE GetGoto(h, s, "log200")
       /\ UNCHANGED <<config, pn, pins, cv, md, probe, storageVars, hubVars, mediaTasks, wh, sd, started, faultsLeft>>

\* await storage.logWebhookEvent(...); the response of the branch
GetLog(h) ==
    LET s == gv[h]
        s1 == [s EXCEPT !.logged = @ + 1]
    IN /\ s.pc \in {"log500", "log403", "log200"}
       /\ \/ /\ s.pc = "log500"
             /\ logWebhookEvent("GET", 500, "Missing verify token configuration", 0)
             /\ GetRespond(h, s1, 500, "Verify token is not configured")
          \/ /\ s.pc = "log403"
             /\ logWebhookEvent("GET", 403, "Forbidden", 0)
             /\ GetRespond(h, s1, 403, "Forbidden")
          \/ /\ s.pc = "log200"
             /\ logWebhookEvent("GET", 200, s.req.challenge, 0)
             /\ GetRespond(h, s1, 200, s.req.challenge)
       /\ UNCHANGED <<config, pn, pins, cv, md, probe, conversations, messages, clock, hubVars, mediaTasks,
                      wh, sd, started, faultsLeft>>

\* a storage call of the try block throws
GetStorageThrows(h) ==
    LET s == gv[h]
    IN /\ s.pc \in {"createMetaProvider", "log500", "log403", "log200"}
       /\ faultsLeft > 0
       /\ faultsLeft' = faultsLeft - 1
       /\ GetGoto(h, [s EXCEPT !.threw = @ + 1], "catch")
       /\ UNCHANGED <<config, pn, pins, cv, md, probe, storageVars, hubVars, mediaTasks, wh, sd, started>>

\* catch: await storage.logWebhookEvent({... status: 500}); res.status(500).send("Error")
GetCatch(h) ==
    LET s == gv[h]
    IN /\ s.pc = "catch"
       /\ logWebhookEvent("GET", 500, "error", 0)
       /\ GetRespond(h, [s EXCEPT !.logged = @ + 1], 500, "Error")
       /\ UNCHANGED <<config, pn, pins, cv, md, probe, conversations, messages, clock, hubVars, mediaTasks,
                      wh, sd, started, faultsLeft>>

\* the logWebhookEvent of the catch block throws: no response is written
\* (status 0), or the error handler of the framework answers 500
GetCatchThrows(h) ==
    LET s == gv[h]
    IN /\ s.pc = "catch"
       /\ faultsLeft > 0
       /\ faultsLeft' = faultsLeft - 1
       /\ \/ GetRespond(h, [s EXCEPT !.threw = @ + 1], 0, "none")
          \/ GetRespond(h, [s EXCEPT !.threw = @ + 1], 500, "Internal Server Error")
       /\ UNCHANGED <<config, pn, pins, cv, md, probe, storageVars, hubVars, mediaTasks, wh, sd, started>>

(***************************************************************************)
(* The WebSocket server: wss.on('connection'), ws.on('close'),             *)
(* ws.on('error').                                                         *)
(***************************************************************************)
Remove(seq, c) == SelectSeq(seq, LAMBDA x : x # c)

\* a client connects: wsClients.add(ws)
WsConnect(c) ==
    /\ readyState[c] = "NONE"
    /\ readyState' = [readyState EXCEPT ![c] = "OPEN"]
    /\ wsEvents' = [wsEvents EXCEPT ![c] = @ \cup {"connection"}]
    /\ wsClients' = Append(wsClients, c)
    /\ UNCHANGED <<config, pn, pins, cv, md, probe, storageVars, inbox, published, mediaTasks, wh, gv, sd, started, faultsLeft>>

\* the closing handshake starts: the socket is no longer OPEN, no event yet
WsClosing(c) ==
    /\ readyState[c] = "OPEN"
    /\ readyState' = [readyState EXCEPT ![c] = "CLOSING"]
    /\ UNCHANGED <<config, pn, pins, cv, md, probe, storageVars, wsClients, wsEvents, inbox, published, mediaTasks,
                   wh, gv, sd, started, faultsLeft>>

\* 'close' is emitted: wsClients.delete(ws)
WsClose(c) ==
    /\ readyState[c] \in {"OPEN", "CLOSING"}
    /\ readyState' = [readyState EXCEPT ![c] = "CLOSED"]
    /\ wsEvents' = [wsEvents EXCEPT ![c] = @ \cup {"close"}]
    /\ wsClients' = Remove(wsClients, c)
    /\ UNCHANGED <<config, pn, pins, cv, md, probe, storageVars, inbox, published, mediaTasks, wh, gv, sd, started, faultsLeft>>

\* an 'error' handler that leaves the WebSocket in wsClients
WsErrorKeepsClient(c) ==
    /\ readyState[c] \in {"OPEN", "CLOSING"}
    /\ c \in Range(wsClients)
    /\ readyState' = [readyState EXCEPT ![c] = "CLOSING"]
    /\ wsEvents' = [wsEvents EXCEPT ![c] = @ \cup {"error"}]
    /\ UNCHANGED <<config, pn, pins, cv, md, probe, storageVars, wsClients, inbox, published, mediaTasks, wh, gv, sd, started, faultsLeft>>

\* 'error' is emitted: wsClients.delete(ws); the socket is closing
WsError(c) ==
    /\ readyState[c] \in {"OPEN", "CLOSING"}
    /\ c \in Range(wsClients)
    /\ readyState' = [readyState EXCEPT ![c] = "CLOSING"]
    /\ wsEvents' = [wsEvents EXCEPT ![c] = @ \cup {"error"}]
    /\ wsClients' = Remove(wsClients, c)
    /\ UNCHANGED <<config, pn, pins, cv, md, probe, storageVars, inbox, published, mediaTasks, wh, gv, sd, started, faultsLeft>>

(***************************************************************************)
(* POST /api/message/send.                                                 *)
(***************************************************************************)
\* media_url: absent, or a URL with the extension of its file name ("" for a
\* name without a dot) that is or is not a path of this server's media store
MediaUrl(present, local, name, ext) ==
    [present |-> present, local |-> local, name |-> name, ext |-> ext]

NoMediaUrl == MediaUrl(FALSE, FALSE, "", "")

\* filename.split(".").pop().toLowerCase(): the whole name when it has no dot
getExtensionFromFilename(url) ==
    IF ~url.present THEN "null"
    ELSE IF url.ext = "" THEN (IF url.name = "" THEN "null" ELSE url.name)
    ELSE url.ext

extensionToMediaType(ext) ==
    IF Falsy(ext) THEN "unknown"
    ELSE IF ext \in {"jpg", "jpeg", "png", "gif", "webp", "heic", "heif", "svg"} THEN "image"
    ELSE IF ext \in {"mp4", "mov", "m4v", "webm", "avi", "mkv"} THEN "video"
    ELSE IF ext \in {"mp3", "wav", "m4a", "ogg", "aac"} THEN "audio"
    ELSE IF ext \in {"pdf", "doc", "docx", "xls", "xlsx", "ppt", "pptx", "txt", "csv",
                     "zip", "rar", "7z"} THEN "document"
    ELSE "unknown"

\* an outboundMedia literal that is still pending while it has its url
outboundMediaPending(url) ==
    IF ~url.present THEN NullMedia
    ELSE [isNull |-> FALSE, origin |-> "upload",
          type |-> extensionToMediaType(getExtensionFromFilename(url)),
          status |-> "pending", url |-> "path", thumbnailUrl |-> "null",
          previewUrl |-> "null", downloadAttempts |-> 0]

\* the outboundMedia literal of the handler
outboundMedia(url) ==
    IF ~url.present THEN NullMedia
    ELSE [isNull |-> FALSE, origin |-> "upload",
          type |-> extensionToMediaType(getExtensionFromFilename(url)),
          status |-> "ready", url |-> "path", thumbnailUrl |-> "null",
          previewUrl |-> "null", downloadAttempts |-> 0]

SendReq(to, conversationId, body, media, replyTo) ==
    [to |-> to, conversationId |-> conversationId, body |-> body,
     media_url |-> media, replyToMessageId |-> replyTo]

IdleSend ==
    [pc |-> "idle", req |-> SendReq("undefined", 0, "undefined", NoMediaUrl, 0),
     conv |-> 0, msg |-> 0, providerMessageId |-> "null", msgStatus |-> "sent",
     dispatched |-> 0, upstream |-> "none", created |-> <<>>, createdConv |-> <<>>,
     bcasts |-> <<>>, threw |-> 0, status |-> 0, body |-> "none"]

\* res.status(status).json(...): the response of the call
SendRespond(h, s, status, body, bcast) ==
    sd' = [sd EXCEPT ![h] = [s EXCEPT !.pc = "done", !.status = status, !.body = body,
                                      !.bcasts = bcast]]

SendGoto(h, s, pc) ==
    sd' = [sd EXCEPT ![h] = [s EXCEPT !.pc = pc]]

\* once the conversation is resolved: the reply target is fetched when one is named
SendAfterConversation(h, s) ==
    IF s.req.replyToMessageId # 0
    THEN SendGoto(h, s, "getMessageById")
    ELSE SendGoto(h, s, "createMetaProvider")

\* SendStart without the two validations: every request goes on to the lookups
SendStartNoValidation(h, r) ==
    LET s == [IdleSend EXCEPT !.req = r]
    IN /\ sd[h].pc \in {"idle", "done"}
       /\ started < MaxCalls
       /\ started' = started + 1
       /\ IF r.conversationId # 0
          THEN SendGoto(h, s, "getConversationById")
          ELSE SendGoto(h, s, "getConversationByPhone")
       /\ UNCHANGED <<config, pn, pins, cv, md, probe, storageVars, hubVars, mediaTasks, wh, gv, faultsLeft>>

\* a send request arrives: the two validations, then the first lookup
SendStart(h, r) ==
    LET s == [IdleSend EXCEPT !.req = r]
    IN /\ sd[h].pc \in {"idle", "done"}
       /\ started < MaxCalls
       /\ started' = started + 1
       /\ IF r.conversationId = 0 /\ Falsy(r.to)
          THEN SendRespond(h, s, 400, "conversationId or to is required.", <<>>)
          ELSE IF Falsy(r.body) /\ ~r.media_url.present
          THEN SendRespond(h, s, 400, "body or media_url is required.", <<>>)
          ELSE IF r.conversationId # 0
          THEN SendGoto(h, s, "getConversationById")
          ELSE SendGoto(h, s, "getConversationByPhone")
       /\ UNCHANGED <<config, pn, pins, cv, md, probe, storageVars, hubVars, mediaTasks, wh, gv, faultsLeft>>

\* await storage.getConversationById(conversationId)
SendGetConversationById(h) ==
    LET s == sd[h]
        found == getConversationById(s.req.conversationId)
    IN /\ s.pc = "getConversationById"
       /\ IF found = {}
          THEN SendRespond(h, s, 404, "Conversation not found.", <<>>)
          ELSE SendAfterConversation(h, [s EXCEPT !.conv = s.req.conversationId])
       /\ UNCHANGED <<config, pn, pins, cv, md, probe, storageVars, hubVars, mediaTasks, wh, gv, started, faultsLeft>>

\* await storage.getConversationByPhone(to)
SendGetConversationByPhone(h) ==
    LET s == sd[h]
        found == getConversationByPhone(s.req.to)
    IN /\ s.pc = "getConversationByPhone"
       /\ IF found # {}
          THEN SendAfterConversation(h, [s EXCEPT !.conv = CHOOSE c \in found : TRUE])
          ELSE SendGoto(h, s, "createConversation")
       /\ UNCHANGED <<config, pn, pins, cv, md, probe, storageVars, hubVars, mediaTasks, wh, gv, started, faultsLeft>>

\* await storage.createConversation({ phone: to, createdByUserId })
SendCreateConversation(h) ==
    LET s == sd[h]
        id == Len(conversations) + 1
    IN /\ s.pc = "createConversation"
       /\ IF createConversationRejects(s.req.to)
          THEN /\ SendRespond(h, [s EXCEPT !.threw = @ + 1], 500, "error", <<>>)
               /\ UNCHANGED <<conversations, clock>>
          ELSE /\ conversations' = Append(conversations, NewConversation(s.req.to))
               /\ clock' = clock + 1
               /\ SendAfterConversation(h, [s EXCEPT !.conv = id,
                                                     !.createdConv = Append(@, id)])
       /\ UNCHANGED <<config, pn, pins, cv, md, probe, messages, webhookEvents, hubVars, mediaTasks, wh, gv,
                      started, faultsLeft>>

\* mutant: the direction of the reply target is not looked at
SendGetMessageByIdNoDirectionCheck(h) ==
    LET s == sd[h]
        found == getMessageById(s.req.replyToMessageId)
        messageTarget == messages[s.req.replyToMessageId]
    IN /\ s.pc = "getMessageById"
       /\ IF found = {}
          THEN SendRespond(h, s, 400, "Reply target not found.", <<>>)
          ELSE IF messageTarget.conversationId # s.conv
          THEN SendRespond(h, s, 400, "Reply target belongs to a different conversation.", <<>>)
          ELSE SendGoto(h, s, "createMetaProvider")
       /\ UNCHANGED <<config, pn, pins, cv, md, probe, storageVars, hubVars, mediaTasks, wh, gv, started, faultsLeft>>

\* await storage.getMessageById(replyToMessageId); the three reply checks
SendGetMessageById(h) ==
    LET s == sd[h]
        found == getMessageById(s.req.replyToMessageId)
        messageTarget == messages[s.req.replyToMessageId]
    IN /\ s.pc = "getMessageById"
       /\ IF found = {}
          THEN SendRespond(h, s, 400, "Reply target not found.", <<>>)
          ELSE IF messageTarget.conversationId # s.conv
          THEN SendRespond(h, s, 400, "Reply target belongs to a different conversation.", <<>>)
          ELSE IF messageTarget.direction # "inbound"
          THEN SendRespond(h, s, 400, "You can only reply to incoming messages.", <<>>)
          ELSE SendGoto(h, s, "createMetaProvider")
       /\ UNCHANGED <<config, pn, pins, cv, md, probe, storageVars, hubVars, mediaTasks, wh, gv, started, faultsLeft>>

\* await createMetaProvider(): a throw lands in the catch of the handler
SendCreateMetaProvider(h) ==
    LET s == sd[h]
    IN /\ s.pc = "createMetaProvider"
       /\ IF createMetaProviderThrows(config)
          THEN SendRespond(h, [s EXCEPT !.threw = @ + 1], 500, "error", <<>>)
          ELSE SendGoto(h, s, "send")
       /\ UNCHANGED <<config, pn, pins, cv, md, probe, storageVars, hubVars, mediaTasks, wh, gv, started, faultsLeft>>

\* what the provider answers to a dispatch
Upstream == {"ok", "okNoId", "rejected"}

\* mutant: no try/catch around provider.send, a throw lands in the catch of the
\* handler
SendDispatchNoCatch(h, answer) ==
    LET s == sd[h]
        provider == createMetaProvider(config)
        configured == ~(Falsy(provider.token) \/ Falsy(provider.phoneNumberId))
        s1 == [s EXCEPT !.dispatched = @ + 1,
                        !.upstream = IF configured THEN answer ELSE "notConfigured"]
    IN /\ s.pc = "send"
       /\ answer \in {"ok", "okNoId", "rejected"}
       /\ IF ~configured \/ answer = "rejected"
          THEN SendRespond(h, [s1 EXCEPT !.threw = @ + 1], 500, "error", <<>>)
          ELSE SendGoto(h, [s1 EXCEPT !.providerMessageId =
                                IF answer = "ok"
                                THEN "wamid.out." \o ToString(started) \o "." \o ToString(h)
                                ELSE "null"],
                        "createMessage")
       /\ UNCHANGED <<config, pn, pins, cv, md, probe, storageVars, hubVars, mediaTasks, wh, gv, started, faultsLeft>>

\* await provider.send(...): a throw is caught and leaves status = "failed"
SendDispatch(h, answer) ==
    LET s == sd[h]
        provider == createMetaProvider(config)
        configured == ~(Falsy(provider.token) \/ Falsy(provider.phoneNumberId))
        s1 == [s EXCEPT !.dispatched = @ + 1,
                        !.upstream = IF configured THEN answer ELSE "notConfigured"]
    IN /\ s.pc = "send"
       /\ answer \in Upstream
       /\ IF ~configured \/ answer = "rejected"
          THEN SendGoto(h, [s1 EXCEPT !.msgStatus = "failed"], "createMessage")
          ELSE SendGoto(h, [s1 EXCEPT !.providerMessageId =
                                IF answer = "ok"
                                THEN "wamid.out." \o ToString(started) \o "." \o ToString(h)
                                ELSE "null"],
                        "createMessage")
       /\ UNCHANGED <<config, pn, pins, cv, md, probe, storageVars, hubVars, mediaTasks, wh, gv, started, faultsLeft>>

\* await storage.createMessage({... direction: "outbound" ...})
SendCreateMessage(h) ==
    LET s == sd[h]
        message == NewMessage(s.conv, "outbound", Or(s.req.body, "null"),
                              outboundMedia(s.req.media_url), s.providerMessageId,
                              s.msgStatus, s.req.replyToMessageId)
    IN /\ s.pc = "createMessage"
       /\ IF createMessageRejects(s.providerMessageId)
          THEN /\ SendRespond(h, [s EXCEPT !.threw = @ + 1], 500, "error", <<>>)
               /\ UNCHANGED <<messages, clock>>
          ELSE /\ messages' = Append(messages, message)
               /\ clock' = clock + 1
               /\ SendGoto(h, [s EXCEPT !.msg = message.id,
                                        !.created = Append(@, message.id)],
                           "updateConversationLastAt")
       /\ UNCHANGED <<config, pn, pins, cv, md, probe, conversations, webhookEvents, hubVars, mediaTasks, wh, gv,
                      started, faultsLeft>>

\* a handler that answers without storage.updateConversationLastAt
SendUpdateLastAtSkipped(h) ==
    LET s == sd[h]
    IN /\ s.pc = "updateConversationLastAt"
       /\ SendGoto(h, s, "getMessageWithReplyById")
       /\ UNCHANGED <<config, pn, pins, cv, md, probe, storageVars, hubVars, mediaTasks, wh, gv,
                      started, faultsLeft>>

\* await storage.updateConversationLastAt(conversation.id)
SendUpdateLastAt(h) ==
    LET s == sd[h]
    IN /\ s.pc = "updateConversationLastAt"
       /\ conversations' = [conversations EXCEPT ![s.conv].lastAt = clock + 1]
       /\ clock' = clock + 1
       /\ SendGoto(h, s, "getMessageWithReplyById")
       /\ UNCHANGED <<config, pn, pins, cv, md, probe, messages, webhookEvents, hubVars, mediaTasks, wh, gv,
                      started, faultsLeft>>

\* await storage.getMessageWithReplyById(message.id); res.json({ ok: true, message });
\* broadcastMessage("message_outgoing", payload)
SendRespondAndBroadcast(h, k) ==
    LET s == sd[h]
    IN /\ s.pc = "getMessageWithReplyById"
       /\ k \in SendMayThrowAt
       /\ broadcastMessage("message_outgoing", s.msg, k)
       /\ SendRespond(h, [s EXCEPT !.threw = IF k = 0 THEN @ ELSE @ + 1],
                      200, "message", <<s.msg>>)
       /\ UNCHANGED <<config, pn, pins, cv, md, probe, storageVars, mediaTasks, wh, gv, started>>

\* a storage call throws: catch, res.status(500).json({ error })
SendStorageThrows(h) ==
    LET s == sd[h]
    IN /\ s.pc \in {"getConversationById", "getConversationByPhone", "createConversation",
                    "getMessageById", "createMetaProvider", "createMessage",
                    "updateConversationLastAt", "getMessageWithReplyById"}
       /\ faultsLeft > 0
       /\ faultsLeft' = faultsLeft - 1
       /\ SendRespond(h, [s EXCEPT !.threw = @ + 1], 500, "error", <<>>)
       /\ UNCHANGED <<config, pn, pins, cv, md, probe, storageVars, hubVars, mediaTasks, wh, gv, started>>

(***************************************************************************)
(* POST /api/conversations: open the conversation of a phone number.       *)
(***************************************************************************)
\* req.body.phone: a string is some text with `pad` blanks around it
PhoneInput(isString, pad, text) == [isString |-> isString, pad |-> pad, text |-> text]

\* typeof phone === "string" ? phone.trim() : ""
trimmedPhone(phone) == IF phone.isString THEN phone.text ELSE ""

ConvReq(phone) == [phone |-> phone]

IdleConv ==
    [pc |-> "idle", req |-> ConvReq(PhoneInput(FALSE, 0, "")), phone |-> "", conv |-> 0,
     createdConv |-> <<>>, threw |-> 0, status |-> 0, body |-> "none"]

ConvRespond(h, s, status, body) ==
    cv' = [cv EXCEPT ![h] = [s EXCEPT !.pc = "done", !.status = status, !.body = body]]

\* a request arrives: the phone is trimmed and must not be empty
ConvStart(h, r) ==
    LET s == [IdleConv EXCEPT !.req = r, !.phone = trimmedPhone(r.phone)]
    IN /\ cv[h].pc \in {"idle", "done"}
       /\ started < MaxCalls
       /\ started' = started + 1
       /\ IF Falsy(s.phone)
          THEN ConvRespond(h, s, 400, "Phone number is required.")
          ELSE cv' = [cv EXCEPT ![h] = [s EXCEPT !.pc = "getConversationByPhone"]]
       /\ UNCHANGED <<config, pn, pins, md, probe, storageVars, hubVars, mediaTasks, wh, gv, sd, faultsLeft>>

\* await storage.getConversationByPhone(trimmedPhone); res.json when it exists
ConvGetConversationByPhone(h) ==
    LET s == cv[h]
        found == getConversationByPhone(s.phone)
    IN /\ s.pc = "getConversationByPhone"
       /\ IF found # {}
          THEN ConvRespond(h, [s EXCEPT !.conv = CHOOSE c \in found : TRUE], 200, "conversation")
          ELSE cv' = [cv EXCEPT ![h] = [s EXCEPT !.pc = "createConversation"]]
       /\ UNCHANGED <<config, pn, pins, md, probe, storageVars, hubVars, mediaTasks, wh, gv, sd, started, faultsLeft>>

\* await storage.createConversation({ phone: trimmedPhone, ... }); res.json
ConvCreateConversation(h) ==
    LET s == cv[h]
        id == Len(conversations) + 1
    IN /\ s.pc = "createConversation"
       /\ IF createConversationRejects(s.phone)
          THEN /\ ConvRespond(h, [s EXCEPT !.threw = @ + 1], 500, "error")
               /\ UNCHANGED <<conversations, clock>>
          ELSE /\ conversations' = Append(conversations, NewConversation(s.phone))
               /\ clock' = clock + 1
               /\ ConvRespond(h, [s EXCEPT !.conv = id, !.createdConv = Append(@, id)],
                              200, "conversation")
       /\ UNCHANGED <<config, pn, pins, md, probe, messages, webhookEvents, hubVars, mediaTasks, wh, gv, sd,
                      started, faultsLeft>>

\* a storage call throws: catch, res.status(500).json({ error })
ConvStorageThrows(h) ==
    LET s == cv[h]
    IN /\ s.pc \in {"getConversationByPhone", "createConversation"}
       /\ faultsLeft > 0
       /\ faultsLeft' = faultsLeft - 1
       /\ ConvRespond(h, [s EXCEPT !.threw = @ + 1], 500, "error")
       /\ UNCHANGED <<config, pn, pins, md, probe, storageVars, hubVars, mediaTasks, wh, gv, sd, started>>

(***************************************************************************)
(* POST /api/conversations/:id/pin: pinning and unpinning a conversation.  *)
(***************************************************************************)
MAX_PINNED_CONVERSATIONS == 10

\* a request: the authenticated user ("none" without a session), req.params.id
\* and req.body.pinned with its typeof
PinnedInput(isBoolean, value) == [isBoolean |-> isBoolean, value |-> value]

PinReq(user, id, pinned) == [user |-> user, id |-> id, pinned |-> pinned]

IdlePin ==
    [pc |-> "idle", req |-> PinReq("none", 0, PinnedInput(FALSE, FALSE)),
     alreadyPinned |-> FALSE, currentCount |-> 0, wrote |-> <<>>, pins |-> {},
     threw |-> 0, status |-> 0, body |-> "none"]

\* storage.isConversationPinned(userId, conversationId)
isConversationPinned(userId, conversationId) == <<userId, conversationId>> \in pins

\* storage.getPinnedConversationsForUser(userId)
getPinnedConversationsForUser(userId) == {p \in pins : p[1] = userId}

\* storage.countPinnedConversations(userId)
countPinnedConversations(userId) == Cardinality(getPinnedConversationsForUser(userId))

PinRespond(h, s, status, body) ==
    pn' = [pn EXCEPT ![h] = [s EXCEPT !.pc = "done", !.status = status, !.body = body]]

PinGoto(h, s, pc) ==
    pn' = [pn EXCEPT ![h] = [s EXCEPT !.pc = pc]]

\* a request arrives: authentication, the id and the type of pinned
PinStart(h, r) ==
    LET s == [IdlePin EXCEPT !.req = r]
    IN /\ pn[h].pc \in {"idle", "done"}
       /\ started < MaxCalls
       /\ started' = started + 1
       /\ IF r.user = "none"
          THEN PinRespond(h, s, 401, "Not authenticated")
          ELSE IF r.id = 0
          THEN PinRespond(h, s, 400, "Conversation id is required.")
          ELSE IF ~r.pinned.isBoolean
          THEN PinRespond(h, s, 400, "pinned must be a boolean.")
          ELSE PinGoto(h, s, "getConversationById")
       /\ UNCHANGED <<config, pins, cv, md, probe, storageVars, hubVars, mediaTasks, wh, gv, sd, faultsLeft>>

\* await storage.getConversationById(conversationId); 404 when there is none
PinGetConversationById(h) ==
    LET s == pn[h]
    IN /\ s.pc = "getConversationById"
       /\ IF getConversationById(s.req.id) = {}
          THEN PinRespond(h, s, 404, "Conversation not found.")
          ELSE IF s.req.pinned.value
          THEN PinGoto(h, s, "isConversationPinned")
          ELSE PinGoto(h, s, "unpinConversation")
       /\ UNCHANGED <<config, pins, cv, md, probe, storageVars, hubVars, mediaTasks, wh, gv, sd, started, faultsLeft>>

\* await storage.isConversationPinned(userId, conversationId)
PinIsConversationPinned(h) ==
    LET s == pn[h]
        alreadyPinned == isConversationPinned(s.req.user, s.req.id)
    IN /\ s.pc = "isConversationPinned"
       /\ IF alreadyPinned
          THEN PinGoto(h, [s EXCEPT !.alreadyPinned = TRUE], "pinConversation")
          ELSE PinGoto(h, s, "countPinnedConversations")
       /\ UNCHANGED <<config, pins, cv, md, probe, storageVars, hubVars, mediaTasks, wh, gv, sd, started, faultsLeft>>

\* await storage.countPinnedConversations(userId); 400 at the limit
PinCountPinnedConversations(h) ==
    LET s == pn[h]
        currentCount == countPinnedConversations(s.req.user)
        t == [s EXCEPT !.currentCount = currentCount]
    IN /\ s.pc = "countPinnedConversations"
       /\ IF currentCount >= MAX_PINNED_CONVERSATIONS
          THEN PinRespond(h, t, 400, "You can only pin up to 10 chats.")
          ELSE PinGoto(h, t, "pinConversation")
       /\ UNCHANGED <<config, pins, cv, md, probe, storageVars, hubVars, mediaTasks, wh, gv, sd, started, faultsLeft>>

\* await storage.pinConversation(userId, conversationId)
PinPinConversation(h) ==
    LET s == pn[h]
        pin == <<s.req.user, s.req.id>>
    IN /\ s.pc = "pinConversation"
       /\ pins' = pins \cup {pin}
       /\ PinGoto(h, [s EXCEPT !.wrote = Append(@, pin)], "getPinnedConversationsForUser")
       /\ UNCHANGED <<config, cv, md, probe, storageVars, hubVars, mediaTasks, wh, gv, sd, started, faultsLeft>>

\* await storage.unpinConversation(userId, conversationId)
PinUnpinConversation(h) ==
    LET s == pn[h]
        pin == <<s.req.user, s.req.id>>
    IN /\ s.pc = "unpinConversation"
       /\ pins' = pins \ {pin}
       /\ PinGoto(h, [s EXCEPT !.wrote = Append(@, pin)], "getPinnedConversationsForUser")
       /\ UNCHANGED <<config, cv, md, probe, storageVars, hubVars, mediaTasks, wh, gv, sd, started, faultsLeft>>

\* await storage.getPinnedConversationsForUser(userId); res.json({ pinned, pins })
PinGetPinnedConversationsForUser(h) ==
    LET s == pn[h]
    IN /\ s.pc = "getPinnedConversationsForUser"
       /\ PinRespond(h, [s EXCEPT !.pins = getPinnedConversationsForUser(s.req.user)],
                     200, "pins")
       /\ UNCHANGED <<config, pins, cv, md, probe, storageVars, hubVars, mediaTasks, wh, gv, sd, started, faultsLeft>>

\* a storage call throws: catch, res.status(500).json({ error })
PinStorageThrows(h) ==
    LET s == pn[h]
    IN /\ s.pc \notin {"idle", "done"}
       /\ faultsLeft > 0
       /\ faultsLeft' = faultsLeft - 1
       /\ PinRespond(h, [s EXCEPT !.threw = @ + 1], 500, "error")
       /\ UNCHANGED <<config, pins, cv, md, probe, storageVars, hubVars, mediaTasks, wh, gv, sd, started>>

PinStep(h) ==
    \/ PinGetConversationById(h)
    \/ PinIsConversationPinned(h)
    \/ PinCountPinnedConversations(h)
    \/ PinPinConversation(h)
    \/ PinUnpinConversation(h)
    \/ PinGetPinnedConversationsForUser(h)

(***************************************************************************)
(* GET /media/*: the private media route.                                  *)
(***************************************************************************)
\* a request: what verifySignedUrl finds of its signature, and req.params[0]
MediaReq(signature, relativePath) == [signature |-> signature, relativePath |-> relativePath]

IdleMedia ==
    [pc |-> "idle", req |-> MediaReq("valid", ""), io |-> <<>>, status |-> 0,
     body |-> "none"]

\* verifySignedUrl(req) (server/lib/signedUrl.ts): { valid, status, message }
verifySignedUrl(req) ==
    IF req.signature = "valid" THEN [valid |-> TRUE, status |-> 200, message |-> "ok"]
    ELSE IF req.signature = "expired" THEN [valid |-> FALSE, status |-> 410, message |-> "Expired"]
    ELSE IF req.signature = "missing" THEN [valid |-> FALSE, status |-> 401, message |-> "Missing signature"]
    ELSE [valid |-> FALSE, status |-> 403, message |-> "Invalid signature"]

\* the files under the media root
StoredFiles == {"a.jpg", "b.pdf"}

MediaRespond(h, s, status, body) ==
    md' = [md EXCEPT ![h] = [s EXCEPT !.pc = "done", !.status = status, !.body = body]]

\* mutant: the path is resolved before the signature is looked at
MediaStartResolvesFirst(h, r, resolves) ==
    LET s == [IdleMedia EXCEPT !.req = r]
        validation == verifySignedUrl(r)
        s1 == [s EXCEPT !.io = Append(@, "resolveAbsoluteMediaPath")]
    IN /\ md[h].pc \in {"idle", "done"}
       /\ started < MaxCalls
       /\ started' = started + 1
       /\ IF Falsy(r.relativePath)
          THEN MediaRespond(h, s, 404, "Not found")
          ELSE IF ~resolves
          THEN MediaRespond(h, s1, 500, "Failed to serve media")
          ELSE IF ~validation.valid
          THEN MediaRespond(h, s1, validation.status, validation.message)
          ELSE md' = [md EXCEPT ![h] = [s1 EXCEPT !.pc = "access"]]
       /\ UNCHANGED <<config, pn, pins, cv, probe, storageVars, hubVars, mediaTasks, wh, gv, sd, faultsLeft>>

\* a request arrives: verifySignedUrl, req.params[0], resolveAbsoluteMediaPath,
\* which returns a path (resolves) or throws
MediaStart(h, r, resolves) ==
    LET s == [IdleMedia EXCEPT !.req = r]
        validation == verifySignedUrl(r)
        s1 == [s EXCEPT !.io = Append(@, "resolveAbsoluteMediaPath")]
    IN /\ md[h].pc \in {"idle", "done"}
       /\ started < MaxCalls
       /\ started' = started + 1
       /\ IF ~validation.valid
          THEN MediaRespond(h, s, validation.status, validation.message)
          ELSE IF Falsy(r.relativePath)
          THEN MediaRespond(h, s, 404, "Not found")
          ELSE IF ~resolves
          THEN MediaRespond(h, s1, 500, "Failed to serve media")
          ELSE md' = [md EXCEPT ![h] = [s1 EXCEPT !.pc = "access"]]
       /\ UNCHANGED <<config, pn, pins, cv, probe, storageVars, hubVars, mediaTasks, wh, gv, sd, faultsLeft>>

\* await fs.access(absolutePath); the headers; res.sendFile(absolutePath, cb)
MediaAccess(h) ==
    LET s == md[h]
        s1 == [s EXCEPT !.io = Append(@, "access")]
    IN /\ s.pc = "access"
       /\ IF s.req.relativePath \notin StoredFiles
          THEN MediaRespond(h, s1, 404, "Not found")
          ELSE md' = [md EXCEPT ![h] = [s1 EXCEPT !.pc = "sendFile",
                                                  !.io = Append(@, "sendFile")]]
       /\ UNCHANGED <<config, pn, pins, cv, probe, storageVars, hubVars, mediaTasks, wh, gv, sd, started,
                      faultsLeft>>

\* fs.access fails with another error than ENOENT: logger.error, 500
MediaAccessThrows(h) ==
    LET s == md[h]
    IN /\ s.pc = "access"
       /\ faultsLeft > 0
       /\ faultsLeft' = faultsLeft - 1
       /\ MediaRespond(h, [s EXCEPT !.io = Append(@, "access")], 500, "Failed to serve media")
       /\ UNCHANGED <<config, pn, pins, cv, probe, storageVars, hubVars, mediaTasks, wh, gv, sd, started>>

\* the callback of res.sendFile: the file was streamed, or the stream failed
\* before the headers went out (ENOENT: 404, otherwise 500) or after them
MediaSendFile(h, outcome) ==
    LET s == md[h]
    IN /\ s.pc = "sendFile"
       /\ IF outcome = "ENOENT" THEN MediaRespond(h, s, 404, "none")
          ELSE IF outcome = "error" THEN MediaRespond(h, s, 500, "none")
          ELSE IF outcome = "errorAfterHeaders" THEN MediaRespond(h, s, 200, "truncated")
          ELSE MediaRespond(h, s, 200, "file")
       /\ UNCHANGED <<config, pn, pins, cv, probe, storageVars, hubVars, mediaTasks, wh, gv, sd, started,
                      faultsLeft>>

(***************************************************************************)
(* MetaProvider.send: the payload it builds.  A URL is a string, here a    *)
(* sequence of tokens: the characters "/", ".", "?" and "#", and words     *)
(* without any of them.                                                    *)
(***************************************************************************)
\* mutant: nothing is cut off
SplitFirstKeepsAll(str, sep) == str

\* str.split(sep)[0]: what precedes the first sep, all of str without one
SplitFirst(str, sep) ==
    LET hits == {i \in DOMAIN str : str[i] = sep}
    IN IF hits = {} THEN str
       ELSE SubSeq(str, 1, (CHOOSE i \in hits : \A j \in hits : i <= j) - 1)

\* path.extname (posix): from the last "." of the last segment, trailing
\* slashes ignored; "" without a dot, for a dot that begins the segment, and
\* for the segment ".."
extname(path) ==
    LET body == {i \in DOMAIN path : path[i] # "/"}
        end == IF body = {} THEN 0 ELSE CHOOSE i \in body : \A j \in body : j <= i
        slashes == {i \in 1..end : path[i] = "/"}
        startPart == IF slashes = {} THEN 1
                     ELSE (CHOOSE i \in slashes : \A j \in slashes : j <= i) + 1
        dots == {i \in startPart..end : path[i] = "."}
        startDot == IF dots = {} THEN 0 ELSE CHOOSE i \in dots : \A j \in dots : j <= i
    IN IF end = 0 \/ startDot = 0 \/ startDot = startPart THEN <<>>
       ELSE IF SubSeq(path, startPart, end) = <<".", ".">> THEN <<>>
       ELSE SubSeq(path, startDot, end)

asImage == {<<".", e>> : e \in {"jpg", "jpeg", "png", "gif", "webp"}}
asVideo == {<<".", e>> : e \in {"mp4", "mov", "avi", "mkv", "webm"}}
asAudio == {<<".", e>> : e \in {"mp3", "mpeg", "ogg", "wav", "aac"}}
asDocument == {<<".", e>> : e \in {"pdf", "doc", "docx", "xls", "xlsx", "ppt", "pptx", "txt", "csv"}}

\* a mediaUrl argument: undefined, or a string
UrlArg(present, str) == [present |-> present, str |-> str]

\* the messagePayload of send(to, body, mediaUrl): its type, the link of its
\* media object, and the caption or text
messagePayload(body, mediaUrl) ==
    LET normalizedUrl == SplitFirst(SplitFirst(mediaUrl.str, "?"), "#")
        dotted == extname(normalizedUrl)
        extension == [i \in DOMAIN dotted |-> toLowerCase(dotted[i])]
        caption == IF Falsy(body) THEN "undefined" ELSE body
    IN IF mediaUrl.present /\ mediaUrl.str # <<>>
       THEN IF extension \in asImage
            THEN [type |-> "image", link |-> mediaUrl.str, text |-> caption]
            ELSE IF extension \in asVideo
            THEN [type |-> "video", link |-> mediaUrl.str, text |-> caption]
            ELSE IF extension \in asAudio
            THEN [type |-> "audio", link |-> mediaUrl.str, text |-> "undefined"]
            ELSE IF extension \in asDocument \/ Len(extension) = 0
            THEN [type |-> "document", link |-> mediaUrl.str, text |-> caption]
            ELSE [type |-> "document", link |-> mediaUrl.str, text |-> caption]
       ELSE IF ~Falsy(body)
       THEN [type |-> "text", link |-> <<>>, text |-> body]
       ELSE [type |-> "undefined", link |-> <<>>, text |-> "undefined"]

(***************************************************************************)
(* Calls of the functions of the adapter on their own.                     *)
(***************************************************************************)
NoProbe == [fn |-> "none"]

\* a URL by its parts: host (none for a path of this server), directories,
\* the name of the file before its extension, the extension ("none" when
\* the name has no dot), the slashes that trail the path, query and fragment
Url(host, dirs, base, ext, trail, query, fragment) ==
    [present |-> TRUE, host |-> host, dirs |-> dirs, base |-> base, ext |-> ext,
     trail |-> trail, query |-> query, fragment |-> fragment]

NoUrl == [present |-> FALSE, host |-> <<>>, dirs |-> <<>>, base |-> <<>>, ext |-> "none",
          trail |-> <<>>, query |-> <<>>, fragment |-> <<>>]

\* the string of a URL
UrlString(u) ==
    (IF u.host = <<>> THEN <<>> ELSE <<"https:", "/", "/">> \o u.host)
    \o u.dirs \o <<"/">> \o u.base
    \o (IF u.ext = "none" THEN <<>> ELSE IF u.ext = "" THEN <<".">> ELSE <<".", u.ext>>)
    \o u.trail \o u.query \o u.fragment

\* provider.send(to, body, mediaUrl) up to the payload it posts: it throws
\* first when the provider has no token or no phone number id
ProbeSend(body, u) ==
    LET provider == createMetaProvider(config)
        mediaUrl == UrlArg(u.present, IF u.present THEN UrlString(u) ELSE <<>>)
    IN /\ probe = NoProbe
       /\ ~createMetaProviderThrows(config)
       /\ probe' = [fn |-> "send", body |-> body, url |-> u, mediaUrl |-> mediaUrl,
                    threw |-> Falsy(provider.token) \/ Falsy(provider.phoneNumberId),
                    payload |-> messagePayload(body, mediaUrl)]
       /\ UNCHANGED <<config, pn, pins, cv, md, storageVars, hubVars, mediaTasks, wh, gv, sd, started,
                      faultsLeft>>

\* what the send handler derives from one media_url: the type of outboundMedia
\* and the payload that provider.send posts for the URL handed to it, which is
\* the signed path of a file of the media store or the media_url itself
ProbeOutbound(body, media) ==
    LET providerMediaUrl ==
            IF media.local
            THEN <<"https:", "/", "/", "h", "/", "media", "/", "a", ".", media.ext,
                   "?", "expires", "&", "sig">>
            ELSE <<"https:", "/", "/", "cdn", ".", "com", "/", "a", ".", media.ext>>
    IN /\ probe = NoProbe
       /\ media.present
       /\ probe' = [fn |-> "outbound", body |-> body, media |-> media,
                    stored |-> outboundMedia(media).type,
                    payload |-> messagePayload(body, UrlArg(TRUE, providerMediaUrl))]
       /\ UNCHANGED <<config, pn, pins, cv, md, storageVars, hubVars, mediaTasks, wh, gv, sd, started,
                      faultsLeft>>

\* provider.parseIncoming(payload) called twice, when the wall clock reads at1
\* and when it reads at2
ProbeParseIncoming(payload, at1, at2) ==
    /\ probe = NoProbe
    /\ probe' = [fn |-> "parseIncoming", payload |-> payload, at1 |-> at1, at2 |-> at2,
                 first |-> parseIncoming(payload, at1),
                 second |-> parseIncoming(payload, at2)]
    /\ UNCHANGED <<config, pn, pins, cv, md, storageVars, hubVars, mediaTasks, wh, gv, sd, started,
                   faultsLeft>>

\* provider.verifyWebhookSignature(request, rawBody) on the provider of the
\* configuration
ProbeVerifyWebhookSignature(header, rawBody) ==
    /\ probe = NoProbe
    /\ ~createMetaProviderThrows(config)
    /\ probe' = [fn |-> "verifyWebhookSignature", header |-> header, rawBody |-> rawBody,
                 result |-> verifyWebhookSignature(createMetaProvider(config), header, rawBody)]
    /\ UNCHANGED <<config, pn, pins, cv, md, storageVars, hubVars, mediaTasks, wh, gv, sd, started,
                   faultsLeft>>

(***************************************************************************)
(* Inputs.                                                                 *)
(***************************************************************************)
\* a stored instance with credentials and an app secret
CfgInstanceSecret ==
    MkConfig(TRUE, TRUE, "tok", "pnid", "vtA", "secA",
             "undefined", "undefined", "undefined", "undefined")
\* no stored instance, everything from the environment, no app secret
CfgEnvNoSecret ==
    MkConfig(FALSE, TRUE, "null", "null", "null", "null",
             "envtok", "envpnid", "vtB", "undefined")
\* no stored instance, app secret from the environment
CfgEnvSecret ==
    MkConfig(FALSE, TRUE, "null", "null", "null", "null",
             "envtok", "envpnid", "vtB", "secB")
\* a stored instance that was disabled
CfgDisabled ==
    MkConfig(TRUE, FALSE, "tok", "pnid", "vtA", "secA",
             "undefined", "undefined", "undefined", "undefined")

MsgTextA == Msg("p1", "wamid.A", "text", TRUE)
MsgImageB == Msg("p2", "wamid.B", "image", TRUE)
MsgNoId == Msg("p1", "undefined", "text", TRUE)
MsgSticker == Msg("p2", "wamid.C", "sticker", FALSE)

PNoEntry == Payload(FALSE, <<>>)
PEmptyEntry == Payload(TRUE, <<>>)
PNoChanges == Payload(TRUE, <<Entry(FALSE, <<>>)>>)
PNoMessages == Payload(TRUE, <<Entry(TRUE, <<Change(FALSE, <<>>)>>)>>)
PEmptyMessages == Payload(TRUE, <<Entry(TRUE, <<Change(TRUE, <<>>)>>)>>)
POne == Payload(TRUE, <<Entry(TRUE, <<Change(TRUE, <<MsgTextA>>)>>)>>)
PTwo == Payload(TRUE, <<Entry(TRUE, <<Change(TRUE, <<MsgTextA, MsgImageB>>)>>)>>)
\* the same two messages spread over two entries, with empty parts between them
PSplit == Payload(TRUE, <<Entry(TRUE, <<Change(TRUE, <<MsgImageB>>), Change(FALSE, <<>>)>>),
                          Entry(FALSE, <<>>),
                          Entry(TRUE, <<Change(TRUE, <<MsgTextA>>)>>)>>)
\* one message twice in one payload
PTwice == Payload(TRUE, <<Entry(TRUE, <<Change(TRUE, <<MsgTextA, MsgTextA>>)>>)>>)
PNoId == Payload(TRUE, <<Entry(TRUE, <<Change(TRUE, <<MsgNoId, MsgSticker>>)>>)>>)

EmptyPayloads == {PNoEntry, PEmptyEntry, PNoChanges, PNoMessages, PEmptyMessages}

\* the signature a sender holding `key` computes over the bytes it sends
Signed(key, raw) == Header(TRUE, <<PrefixTok>> \o HmacHex(key, raw))

\* an unsigned request whose raw body the body parser captured
Plain(payload) == PostReq(Raw(payload, 0), NoHeader, TRUE)

InitStorageEmpty ==
    /\ conversations = <<>>
    /\ messages = <<>>
    /\ webhookEvents = <<>>
    /\ clock = 0

InitHubEmpty ==
    /\ wsClients = <<>>
    /\ readyState = [c \in Clients |-> "NONE"]
    /\ wsEvents = [c \in Clients |-> {}]
    /\ inbox = [c \in Clients |-> <<>>]
    /\ published = <<>>

InitPinsEmpty == pins = {}

InitHandlers ==
    /\ wh = [h \in Handlers |-> IdlePost]
    /\ gv = [h \in Handlers |-> IdleGet]
    /\ sd = [h \in Handlers |-> IdleSend]
    /\ cv = [h \in Handlers |-> IdleConv]
    /\ md = [h \in Handlers |-> IdleMedia]
    /\ pn = [h \in Handlers |-> IdlePin]
    /\ probe = NoProbe
    /\ mediaTasks = <<>>
    /\ started = 0

\* the for loop of the webhook POST handler
PostIngest(h) ==
    \/ PostDedup(h)
    \/ PostGetConversation(h)
    \/ PostCreateConversation(h)
    \/ PostCreateMessage(h)
    \/ PostLogEvent(h)
    \/ \E k \in 0..NumClients : PostUpdateLastAt(h, k)

\* the steps of one webhook POST handler, no collaborator call failing
PostStep(h) ==
    \/ PostCreateMetaProvider(h)
    \/ PostLog401(h)
    \/ PostLogNoEvents(h)
    \/ PostIngest(h)
    \/ PostCatch(h)

GetStep(h) ==
    \/ GetCreateMetaProvider(h)
    \/ GetLog(h)
    \/ GetCatch(h)

SendStep(h) ==
    \/ SendGetConversationById(h)
    \/ SendGetConversationByPhone(h)
    \/ SendCreateConversation(h)
    \/ SendGetMessageById(h)
    \/ SendCreateMetaProvider(h)
    \/ \E answer \in Upstream : SendDispatch(h, answer)
    \/ SendCreateMessage(h)
    \/ SendUpdateLastAt(h)
    \/ \E k \in 0..NumClients : SendRespondAndBroadcast(h, k)

(***************************************************************************)
(* SpecSeq: webhook POSTs delivered one after another, every storage call  *)
(* returning.                                                              *)
(***************************************************************************)
SignedPlain(key, payload) == PostReq(Raw(payload, 0), Signed(key, Raw(payload, 0)), TRUE)

SeqRequests ==
    {Plain(p) : p \in EmptyPayloads \cup {POne, PTwo, PSplit, PTwice, PNoId}}
    \cup {SignedPlain("secA", p) : p \in {PNoChanges, PTwo}}

InitSeq ==
    /\ config \in {CfgEnvNoSecret, CfgInstanceSecret, CfgDisabled}
    /\ InitStorageEmpty
    /\ InitHubEmpty
    /\ InitHandlers
    /\ InitPinsEmpty
    /\ faultsLeft = 0

NextSeq ==
    \/ \E r \in SeqRequests : PostStart(1, r)
    \/ PostStep(1)

SpecSeq == InitSeq /\ [][NextSeq]_vars

\* the message_incoming broadcasts issued for Messages stamped pmid
IncomingBroadcasts(pmid) ==
    {j \in DOMAIN published :
        /\ published[j].event = "message_incoming"
        /\ messages[published[j].data].providerMessageId = pmid}

\* C1: idempotent ingestion. Whenever a delivery has been answered 200 "ok",
\* however many deliveries of whatever payloads came before it, every
\* providerMessageId of its events stamps exactly one Message and exactly one
\* message_incoming broadcast was issued for it; and at no moment, whatever
\* the deliveries were answered, does a providerMessageId stamp more than one
\* Message or have more than one message_incoming broadcast.
C1_Idempotent ==
    /\ \A h \in Handlers :
          (wh[h].pc = "done" /\ wh[h].status = 200 /\ wh[h].body = "ok") =>
              \A i \in DOMAIN wh[h].events :
                  LET pmid == wh[h].events[i].providerMessageId
                  IN ~Falsy(pmid) =>
                        /\ Cardinality(getMessageByProviderMessageId(pmid)) = 1
                        /\ Cardinality(IncomingBroadcasts(pmid)) = 1
    /\ \A i \in DOMAIN messages :
          LET pmid == messages[i].providerMessageId
          IN pmid # "null" =>
                /\ Cardinality(getMessageByProviderMessageId(pmid)) = 1
                /\ Cardinality(IncomingBroadcasts(pmid)) <= 1

\* the third delivery was answered 200 with every event of it absorbed
C1_Witness ==
    /\ started = 3
    /\ wh[1].pc = "done" /\ wh[1].status = 200 /\ wh[1].body = "ok"
    /\ Len(wh[1].events) = 2
    /\ wh[1].skipped = <<1, 2>>
    /\ Len(messages) = 2

\* the payload holds no messages array with an element in it
HasNoMessages(payload) ==
    \/ ~payload.hasEntry
    \/ \A i \in DOMAIN payload.entry :
          \/ ~payload.entry[i].hasChanges
          \/ \A j \in DOMAIN payload.entry[i].changes :
                \/ ~payload.entry[i].changes[j].hasMessages
                \/ payload.entry[i].changes[j].messages = <<>>

\* C5: empty-payload acknowledgement. A POST that passed verification and whose
\* payload holds no messages is answered 200 "ok - no events" and created no
\* Message, no Conversation and no broadcast (storage and hub are as the
\* sequential deliveries before it left them: nothing of this call is in them).
C5_EmptyAck ==
    \A h \in Handlers :
        (wh[h].pc = "done" /\ wh[h].verified
         /\ HasNoMessages(JSONparse(wh[h].req.raw))) =>
            /\ wh[h].status = 200
            /\ wh[h].body = "ok - no events"
            /\ wh[h].created = <<>>
            /\ wh[h].conv = 0
            /\ wh[h].bcasts = <<>>
            /\ wh[h].tasks = <<>>

\* a signed, verified POST without messages, the first call, was answered
C5_Witness ==
    /\ wh[1].pc = "done" /\ wh[1].verified /\ wh[1].sigChecked
    /\ wh[1].req.raw.payload = PNoChanges
    /\ started = 1
    /\ messages = <<>> /\ conversations = <<>> /\ published = <<>>

(***************************************************************************)
(* SpecSig: signed and unsigned webhook POSTs against configurations with  *)
(* and without an app secret, one after another.                           *)
(***************************************************************************)
SigRaws == {Raw(POne, 0), Raw(POne, 1), Raw(PNoChanges, 1)}

SigHeaders(raw) ==
    {NoHeader,
     Header(TRUE, <<>>),
     Signed("secA", raw),
     Signed("secB", raw),
     Signed("guess", raw),
     Signed("secA", JSONstringify(JSONparse(raw))),
     Header(TRUE, HmacHex("secA", raw)),
     Header(TRUE, HmacHex("secA", raw) \o <<PrefixTok>>),
     Header(TRUE, <<PrefixTok, JunkTok>>)}

SigRequests ==
    {PostReq(raw, header, captured) :
        raw \in SigRaws, header \in UNION {SigHeaders(r) : r \in SigRaws},
        captured \in BOOLEAN}

InitSig ==
    /\ config \in {CfgInstanceSecret, CfgEnvSecret, CfgEnvNoSecret}
    /\ InitStorageEmpty
    /\ InitHubEmpty
    /\ InitHandlers
    /\ InitPinsEmpty
    /\ faultsLeft = 0

NextSig ==
    \/ \E r \in SigRequests : PostStart(1, r)
    \/ PostCreateMetaProvider(1)
    \/ PostLog401(1)
    \/ PostLogNoEvents(1)
    \/ PostIngest(1)

SpecSig == InitSig /\ [][NextSig]_vars

\* the header is the signature over the raw body under the configured secret
\* ("sha256=" followed by the hex HMAC, or the hex HMAC)
CorrectlySigned(req) ==
    /\ req.header.present
    /\ ReplacePrefix(req.header.toks) = HmacHex(createMetaProvider(config).appSecret, req.raw)

\* C3 as claimed: with an app secret configured, a POST whose header is absent
\* or is not the HMAC of the raw body is answered 401 and creates no Message,
\* and a POST correctly signed over the raw body is accepted and parsed.
C3_SignatureEnforced ==
    \A h \in Handlers :
        (wh[h].pc = "done" /\ hasAppSecret(config)) =>
            IF CorrectlySigned(wh[h].req)
            THEN wh[h].verified /\ wh[h].status # 401
            ELSE wh[h].status = 401 /\ wh[h].created = <<>>

\* C4 as claimed: whenever the signature is checked, the bytes fed to the HMAC
\* are the raw request body.
C4_RawBodyFed ==
    \A h \in Handlers : wh[h].sigChecked => wh[h].fed = wh[h].req.raw

(***************************************************************************)
(* SpecConc: webhook POST handlers running concurrently, as when the       *)
(* provider redelivers a payload while its first delivery is in progress.  *)
(***************************************************************************)
ConcRequests == {Plain(POne), Plain(PTwo)}

InitConc ==
    /\ config = CfgEnvNoSecret
    /\ InitStorageEmpty
    /\ InitHubEmpty
    /\ InitHandlers
    /\ InitPinsEmpty
    /\ faultsLeft = 0

NextConc ==
    \E h \in Handlers :
        \/ \E r \in ConcRequests : PostStart(h, r)
        \/ PostCreateMetaProvider(h)
        \/ PostIngest(h)
        \/ PostCatch(h)

SpecConc == InitConc /\ [][NextConc]_vars

CfgNoToken ==
    MkConfig(TRUE, TRUE, "", "pnid", "vtA", "null",
             "undefined", "undefined", "vtB", "undefined")
\* a stored instance without a verify token, none in the environment either
CfgNoVerify ==
    MkConfig(TRUE, TRUE, "tok", "pnid", "null", "null",
             "undefined", "undefined", "undefined", "undefined")
\* a stored instance without a verify token, one in the environment
CfgEnvVerify ==
    MkConfig(TRUE, TRUE, "tok", "pnid", "null", "null",
             "undefined", "undefined", "vtB", "undefined")
\* verify tokens in both places
CfgBothVerify ==
    MkConfig(TRUE, TRUE, "tok", "pnid", "vtA", "null",
             "undefined", "undefined", "vtB", "undefined")

\* a stored instance that was disabled and has no verify token, none in the
\* environment either
CfgDisabledNoVerify ==
    MkConfig(TRUE, FALSE, "tok", "pnid", "null", "null",
             "undefined", "undefined", "undefined", "undefined")
\* no stored instance and nothing in the environment
CfgNothing ==
    MkConfig(FALSE, TRUE, "null", "null", "null", "null",
             "undefined", "undefined", "undefined", "undefined")

GetConfigs ==
    {CfgInstanceSecret, CfgEnvNoSecret, CfgDisabled, CfgNoToken, CfgNoVerify,
     CfgEnvVerify, CfgBothVerify, CfgDisabledNoVerify, CfgNothing}

GetRequests ==
    {GetReq(mode, challenge, token) :
        mode \in {"undefined", "subscribe", "SUBSCRIBE", "unsubscribe"},
        challenge \in {"undefined", "123"},
        token \in {"undefined", "", "vtA", "vtB", "guess"}}

InitGet ==
    /\ config \in GetConfigs
    /\ InitStorageEmpty
    /\ InitHubEmpty
    /\ InitHandlers
    /\ InitPinsEmpty
    /\ faultsLeft = 0

NextGet ==
    \/ \E q \in GetRequests : GetStart(1, q)
    \/ GetStep(1)

SpecGet == InitGet /\ [][NextGet]_vars

\* the verify token of the stored instance, else the one of the environment
ConfiguredVerifyToken(cfg) ==
    IF cfg.hasInstance /\ cfg.webhookVerifyToken \notin {"null", "undefined"}
    THEN cfg.webhookVerifyToken
    ELSE IF cfg.META_VERIFY_TOKEN # "undefined" THEN cfg.META_VERIFY_TOKEN ELSE ""

\* the GET of the claim: hub.mode=subscribe with a challenge, a token configured
ChallengeCall(s) ==
    /\ s.pc = "done"
    /\ s.req.mode = "subscribe" /\ s.req.challenge # "undefined"
    /\ ConfiguredVerifyToken(config) # ""

\* C6 as claimed: such a GET is answered 200 with the challenge when its token is
\* the configured one, and 403 when it is another.
C6_ChallengeEchoAsClaimed ==
    \A h \in Handlers :
        ChallengeCall(gv[h]) =>
            IF gv[h].req.token = ConfiguredVerifyToken(config)
            THEN gv[h].status = 200 /\ gv[h].body = gv[h].req.challenge
            ELSE gv[h].status = 403

\* C6, amended: the same, when createMetaProvider returns, that is unless a
\* stored default instance is disabled or lacks its access token or phone
\* number id (the GET is then answered 500).
C6_ChallengeEcho ==
    \A h \in Handlers :
        (ChallengeCall(gv[h]) /\ ~createMetaProviderThrows(config)) =>
            IF gv[h].req.token = ConfiguredVerifyToken(config)
            THEN gv[h].status = 200 /\ gv[h].body = gv[h].req.challenge
            ELSE gv[h].status = 403

\* a challenge was echoed, and in another call a wrong token was refused
C6_Witness ==
    /\ ChallengeCall(gv[1])
    /\ gv[1].req.token = "vtA" /\ config = CfgBothVerify
    /\ gv[1].status = 200 /\ gv[1].body = "123"
    /\ \E i \in DOMAIN webhookEvents : webhookEvents[i].status = 403

(***************************************************************************)
(* Spec: the server.  Webhook GETs and POSTs and send requests arrive at   *)
(* any time and their handlers interleave at the awaits, WebSockets come   *)
(* and go, and up to MaxFaults collaborator calls throw.  Each of the       *)
(* specifications of this module takes the part of it that a property is   *)
(* about.                                                                  *)
(***************************************************************************)
Configs == {CfgInstanceSecret, CfgEnvNoSecret, CfgDisabled}

PostRequests ==
    {Plain(PNoEntry), Plain(POne), Plain(PTwo), SignedPlain("secA", PTwo)}

ProbeRequests ==
    {GetReq("undefined", "undefined", "undefined"),
     GetReq("subscribe", "123", "vtA"),
     GetReq("subscribe", "123", "guess")}

SendRequests ==
    {SendReq("p1", 0, "hi", NoMediaUrl, 0),
     SendReq("undefined", 1, "hi", NoMediaUrl, 1),
     SendReq("undefined", 0, "hi", NoMediaUrl, 0)}

Init ==
    /\ config \in Configs
    /\ InitStorageEmpty
    /\ InitHubEmpty
    /\ InitHandlers
    /\ InitPinsEmpty
    /\ faultsLeft = MaxFaults

Next ==
    \/ \E h \in Handlers, r \in PostRequests : PostStart(h, r)
    \/ \E h \in Handlers : PostStep(h) \/ PostStorageThrows(h) \/ PostCatchThrows(h)
    \/ \E h \in Handlers, q \in ProbeRequests : GetStart(h, q)
    \/ \E h \in Handlers : GetStep(h) \/ GetStorageThrows(h) \/ GetCatchThrows(h)
    \/ \E h \in Handlers, r \in SendRequests : SendStart(h, r)
    \/ \E h \in Handlers : SendStep(h) \/ SendStorageThrows(h)
    \/ \E c \in Clients : WsConnect(c) \/ WsClosing(c) \/ WsClose(c) \/ WsError(c)
    \/ \E i \in 1..(2 * MaxCalls), next \in {"downloading", "ready", "failed"},
          k \in 0..NumClients : MediaTaskStatusChange(i, next, k)
    \/ \E i \in 1..(2 * MaxCalls) : MediaTaskRejects(i)
    \/ \E h \in Handlers, r \in {ConvReq(PhoneInput(TRUE, 1, "p1"))} : ConvStart(h, r)
    \/ \E h \in Handlers :
          ConvGetConversationByPhone(h) \/ ConvCreateConversation(h) \/ ConvStorageThrows(h)
    \/ \E h \in Handlers, r \in {MediaReq("valid", "a.jpg"), MediaReq("expired", "a.jpg")},
          resolves \in BOOLEAN : MediaStart(h, r, resolves)
    \/ \E h \in Handlers :
          \/ MediaAccess(h) \/ MediaAccessThrows(h)
          \/ \E outcome \in {"ok", "ENOENT", "error", "errorAfterHeaders"} :
                MediaSendFile(h, outcome)
    \/ \E h \in Handlers, r \in {PinReq("u1", 1, PinnedInput(TRUE, TRUE))} : PinStart(h, r)
    \/ \E h \in Handlers : PinStep(h) \/ PinStorageThrows(h)
    \/ ProbeVerifyWebhookSignature(NoHeader, NoRaw)
    \/ \E at1, at2 \in Times : ProbeParseIncoming(PTwo, at1, at2)
    \/ ProbeOutbound("hi", MediaUrl(TRUE, TRUE, "a.jpg", "jpg"))
    \/ ProbeSend("hi", NoUrl)

Spec == Init /\ [][Next]_vars

(***************************************************************************)
(* SpecAudit: webhook GETs and POSTs, every storage call returning.        *)
(***************************************************************************)
AuditPosts ==
    {Plain(PNoEntry), Plain(POne), Plain(PTwo), Plain(PNoId), SignedPlain("secA", POne)}

InitAudit ==
    /\ config \in Configs
    /\ InitStorageEmpty
    /\ InitHubEmpty
    /\ InitHandlers
    /\ InitPinsEmpty
    /\ faultsLeft = 0

NextAudit ==
    \/ \E r \in AuditPosts : PostStart(1, r)
    \/ PostStep(1)
    \/ \E q \in ProbeRequests : GetStart(1, q)
    \/ GetStep(1)

SpecAudit == InitAudit /\ [][NextAudit]_vars

\* C7 as claimed: a webhook call that is over, GET or POST, has appended exactly
\* one WebhookEvent, and the audit log holds one record for every such call.
C7_OneAuditRecordPerCall ==
    /\ \A h \in Handlers :
          /\ gv[h].pc = "done" => gv[h].logged = 1
          /\ wh[h].pc = "done" => wh[h].logged = 1
    /\ (\A h \in Handlers : gv[h].pc \in {"idle", "done"} /\ wh[h].pc \in {"idle", "done"})
          => Len(webhookEvents) = started

(***************************************************************************)
(* SpecHub: WebSockets come and go while webhook POSTs are ingested, and   *)
(* up to MaxFaults sends to an OPEN WebSocket throw.                       *)
(***************************************************************************)
InitHub ==
    /\ config = CfgEnvNoSecret
    /\ InitStorageEmpty
    /\ InitHubEmpty
    /\ InitHandlers
    /\ InitPinsEmpty
    /\ faultsLeft = MaxFaults

NextHub ==
    \/ \E c \in Clients : WsConnect(c) \/ WsClosing(c) \/ WsClose(c) \/ WsError(c)
    \/ \E r \in {Plain(POne), Plain(PTwo)} : PostStart(1, r)
    \/ PostCreateMetaProvider(1)
    \/ PostIngest(1)
    \/ PostCatch(1)

SpecHub == InitHub /\ [][NextHub]_vars

\* C8 as claimed: of every publish in which the send to one observer failed, the
\* other open observers were all sent the event, nothing was raised to the
\* caller, and the failing observer is no longer in the set when it returns.
C8_BroadcastFaultIsolation ==
    \A j \in DOMAIN published :
        LET p == published[j]
        IN p.failed # 0 =>
              /\ p.sentTo = p.open \ {p.failed}
              /\ ~p.threw
              /\ p.failed \notin p.clientsAfter

(***************************************************************************)
(* SpecFault: webhook POSTs delivered one after another while up to        *)
(* MaxFaults storage calls throw.                                          *)
(***************************************************************************)
FaultRequests == {Plain(PNoEntry), Plain(POne), Plain(PTwo), Plain(PNoId)}

InitFault ==
    /\ config = CfgEnvNoSecret
    /\ InitStorageEmpty
    /\ InitHubEmpty
    /\ InitHandlers
    /\ InitPinsEmpty
    /\ faultsLeft = MaxFaults

NextFault ==
    \/ \E r \in FaultRequests : PostStart(1, r)
    \/ PostCreateMetaProvider(1)
    \/ PostLogNoEvents(1)
    \/ PostIngest(1)
    \/ PostStorageThrows(1)
    \/ PostCatch(1)
    \/ PostCatchThrows(1)

SpecFault == InitFault /\ [][NextFault]_vars

\* the stored Messages of an event: inbound, of the sender's conversation, with
\* the event's provider message id or, as the event, with none
MessagesOf(event) ==
    {i \in DOMAIN messages :
        /\ messages[i].direction = "inbound"
        /\ messages[i].providerMessageId = Coalesce(event.providerMessageId, "null")
        /\ conversations[messages[i].conversationId].phone = event.from}

\* C9 as claimed: a POST in which a storage call failed after verification is
\* answered 500 and leaves a WebhookEvent recording the error as the last record
\* of the audit log; and of a redelivery, answered 200, of the payload that was
\* just answered 500, every event has exactly one Message.
C9_FailureThenRetry ==
    /\ (wh[1].pc = "done" /\ wh[1].verified /\ wh[1].threw > 0) =>
          /\ wh[1].status = 500
          /\ webhookEvents # <<>>
          /\ webhookEvents[Len(webhookEvents)].status = 500
    /\ (wh[1].pc = "done" /\ wh[1].retry /\ wh[1].status = 200) =>
          \A i \in DOMAIN wh[1].events :
              Cardinality(MessagesOf(wh[1].events[i])) = 1

\* the second half alone: where the first is not at stake, the retry of a
\* payload whose events carry no provider message id stores them again
C9_RetryOnly ==
    (wh[1].pc = "done" /\ wh[1].retry /\ wh[1].status = 200) =>
        \A i \in DOMAIN wh[1].events :
            Cardinality(MessagesOf(wh[1].events[i])) = 1

(***************************************************************************)
(* SpecSend: send requests, one after another, against a store that holds  *)
(* two conversations with inbound and outbound messages.                   *)
(***************************************************************************)
\* neither a stored instance nor credentials in the environment
CfgBare ==
    MkConfig(FALSE, FALSE, "null", "null", "null", "null",
             "undefined", "undefined", "undefined", "undefined")

\* conversation 1 with p1: an inbound message and the reply that was sent to it;
\* conversation 2 with p2: an inbound message
StoredConversations ==
    <<[id |-> 1, phone |-> "p1", lastAt |-> 4],
      [id |-> 2, phone |-> "p2", lastAt |-> 7]>>

StoredMessages ==
    <<[id |-> 1, conversationId |-> 1, direction |-> "inbound", body |-> "hello",
       media |-> NullMedia, providerMessageId |-> "wamid.A", status |-> "received",
       replyToMessageId |-> 0, createdAt |-> 2],
      [id |-> 2, conversationId |-> 1, direction |-> "outbound", body |-> "hi",
       media |-> NullMedia, providerMessageId |-> "wamid.out.0.1", status |-> "sent",
       replyToMessageId |-> 1, createdAt |-> 3],
      [id |-> 3, conversationId |-> 2, direction |-> "inbound", body |-> "null",
       media |-> NullMedia, providerMessageId |-> "null", status |-> "received",
       replyToMessageId |-> 0, createdAt |-> 6]>>

ReplyRequests ==
    {SendReq("undefined", 1, "hi", NoMediaUrl, replyTo) : replyTo \in {0, 1, 2, 3, 4}}
    \cup {SendReq("undefined", 2, "hi", NoMediaUrl, replyTo) : replyTo \in {1, 3}}
    \cup {SendReq("p1", 0, "hi", NoMediaUrl, replyTo) : replyTo \in {2, 4}}
    \cup {SendReq("p3", 0, "hi", NoMediaUrl, replyTo) : replyTo \in {0, 1, 2}}
    \cup {SendReq("undefined", 9, "hi", NoMediaUrl, 2),
          SendReq("p1", 0, "undefined", NoMediaUrl, 2),
          SendReq("p2", 0, "undefined", MediaUrl(TRUE, TRUE, "a.jpg", "jpg"), 0),
          SendReq("p3", 0, "undefined", NoMediaUrl, 0),
          SendReq("p3", 0, "", NoMediaUrl, 0),
          SendReq("undefined", 9, "null", NoMediaUrl, 4),
          SendReq("undefined", 0, "hi", NoMediaUrl, 0),
          SendReq("", 0, "hi", MediaUrl(TRUE, TRUE, "a.jpg", "jpg"), 1)}

InitSend ==
    /\ config \in {CfgEnvNoSecret, CfgDisabled, CfgBare, CfgNoToken}
    /\ conversations = StoredConversations
    /\ messages = StoredMessages
    /\ webhookEvents = <<>>
    /\ clock = 7
    /\ InitHubEmpty
    /\ InitHandlers
    /\ InitPinsEmpty
    /\ faultsLeft = 0

NextSend ==
    \/ \E r \in ReplyRequests : SendStart(1, r)
    \/ SendStep(1)

SpecSend == InitSend /\ [][NextSend]_vars

\* the reply target of the call exists and is an outbound message, or a message
\* of another conversation than the one the call resolved
BadReplyTarget(s) ==
    /\ s.pc # "idle" /\ s.conv # 0
    /\ s.req.replyToMessageId \in DOMAIN messages
    /\ \/ messages[s.req.replyToMessageId].direction = "outbound"
       \/ messages[s.req.replyToMessageId].conversationId # s.conv

\* C10: a send request whose reply target is outbound or of another conversation
\* than the resolved one never reaches provider.send nor createMessage, and is
\* answered 400.
C10_ReplyIntegrity ==
    \A h \in Handlers :
        BadReplyTarget(sd[h]) =>
            /\ sd[h].dispatched = 0
            /\ sd[h].created = <<>>
            /\ sd[h].pc = "done" => sd[h].status = 400

\* a reply to the outbound message that an earlier call of the run stored was
\* refused
C10_Witness ==
    /\ BadReplyTarget(sd[1])
    /\ sd[1].pc = "done" /\ sd[1].status = 400
    /\ sd[1].req.replyToMessageId = 4
    /\ messages[4].direction = "outbound" /\ messages[4].conversationId = sd[1].conv

\* the message_outgoing broadcasts issued for Message id
OutgoingBroadcasts(id) ==
    {j \in DOMAIN published :
        published[j].event = "message_outgoing" /\ published[j].data = id}

\* C11: a send request that reached provider.send with credentials configured
\* is answered 200 with the Message, whatever the provider answered; it stored
\* exactly one outbound Message, with status failed and no provider message id
\* when the provider refused and status sent when it accepted, and issued one
\* message_outgoing broadcast for it.
C11_DispatchFailureKeepsMessage ==
    \A h \in Handlers :
        (sd[h].pc = "done" /\ sd[h].upstream \in Upstream) =>
            /\ sd[h].status = 200 /\ sd[h].body = "message"
            /\ Len(sd[h].created) = 1
            /\ LET m == messages[sd[h].created[1]]
               IN /\ m.direction = "outbound" /\ m.conversationId = sd[h].conv
                  /\ sd[h].upstream = "rejected" =>
                        m.status = "failed" /\ m.providerMessageId = "null"
                  /\ sd[h].upstream # "rejected" => m.status = "sent"
                  /\ sd[h].bcasts = <<m.id>>
                  /\ Cardinality(OutgoingBroadcasts(m.id)) = 1

\* the provider refused a reply to the stored inbound message; the call was
\* answered with the failed Message
C11_Witness ==
    /\ sd[1].pc = "done" /\ sd[1].upstream = "rejected" /\ sd[1].status = 200
    /\ sd[1].req.replyToMessageId = 1
    /\ messages[Len(messages)].status = "failed"
    /\ published # <<>>

\* the credentials a send needs are missing: a stored default instance without
\* access token or phone number id, or none stored and none in the environment
CredentialsMissing(cfg) ==
    IF cfg.hasInstance
    THEN Falsy(cfg.accessToken) \/ Falsy(cfg.phoneNumberId)
    ELSE Falsy(cfg.META_TOKEN) \/ Falsy(cfg.META_PHONE_NUMBER_ID)

\* C12 as claimed: a send request that passed its validations while the
\* credentials are missing is answered 500.
C12_MissingCredentialsSurface ==
    \A h \in Handlers :
        (sd[h].pc = "done" /\ CredentialsMissing(config)
         /\ sd[h].status \notin {400, 404}) =>
            sd[h].status = 500

\* the positions of the handler's log at which it did op for event i
LogAt(s, op, i) ==
    {k \in DOMAIN s.log : s.log[k].op = op /\ s.log[k].idx = i}

\* C13: batch ordering. Within one webhook POST call the events are taken up
\* in the order of the payload: the log of lookups, createMessage calls and
\* broadcasts never goes back to an earlier event; every event the loop has
\* left behind was skipped as a duplicate or had its createMessage and then its
\* message_incoming broadcast, both before anything was done for a later
\* event; and the Messages the call stored are those of its events, in order.
C13_BatchOrder ==
    \A h \in Handlers :
        LET s == wh[h]
        IN /\ \A k, l \in DOMAIN s.log : k < l => s.log[k].idx <= s.log[l].idx
           /\ \A i \in DOMAIN s.events :
                 (i < s.idx /\ s.pc # "catch") =>
                    \/ i \in Range(s.skipped)
                    \/ /\ Cardinality(LogAt(s, "createMessage", i)) = 1
                       /\ Cardinality(LogAt(s, "broadcast", i)) = 1
                       /\ \A c \in LogAt(s, "createMessage", i),
                             b \in LogAt(s, "broadcast", i) :
                             /\ c < b
                             /\ \A k \in DOMAIN s.log : s.log[k].idx > i => b < k
           /\ \A k, l \in DOMAIN s.created :
                 k < l => \E i, j \in DOMAIN s.events :
                             /\ i < j
                             /\ LogAt(s, "createMessage", i) # {}
                             /\ LogAt(s, "createMessage", j) # {}
                             /\ messages[s.created[k]].providerMessageId
                                   = Coalesce(s.events[i].providerMessageId, "null")
                             /\ messages[s.created[l]].providerMessageId
                                   = Coalesce(s.events[j].providerMessageId, "null")

\* the lookup of the second event of a batch is under way, after the first
\* event was stored and broadcast
C13_Witness ==
    /\ wh[1].pc = "getConversationByPhone" /\ wh[1].idx = 2
    /\ wh[1].created # <<>> /\ wh[1].bcasts # <<>>
    /\ LogAt(wh[1], "lookup", 2) # {}

(***************************************************************************)
(* SpecMedia: webhook POSTs with media, one after another, while the media *)
(* tasks they started go their way or stop.                                *)
(***************************************************************************)
MsgVideoC == Msg("p1", "wamid.C", "video", TRUE)
\* an image and a video
PMedia == Payload(TRUE, <<Entry(TRUE, <<Change(TRUE, <<MsgImageB, MsgVideoC>>)>>)>>)

MediaRequests == {Plain(PMedia), Plain(PTwo)}

InitMedia ==
    /\ config = CfgEnvNoSecret
    /\ InitStorageEmpty
    /\ InitHubEmpty
    /\ InitHandlers
    /\ InitPinsEmpty
    /\ faultsLeft = 0

NextMedia ==
    \/ \E r \in MediaRequests : PostStart(1, r)
    \/ PostCreateMetaProvider(1)
    \/ PostIngest(1)
    \/ \E i \in 1..(2 * MaxCalls), next \in {"downloading", "ready", "failed"} :
          MediaTaskStatusChange(i, next, 0)
    \/ \E i \in 1..(2 * MaxCalls) : MediaTaskRejects(i)
    \/ WsConnect(1)

SpecMedia == InitMedia /\ [][NextMedia]_vars

\* the tasks that the call of handler s started
TasksOf(s) == {i \in DOMAIN mediaTasks : mediaTasks[i].messageId \in Range(s.tasks)}

\* C14: the media task is detached. Whatever the tasks do, a handler in the
\* middle of a call can always take its next step, it has started one task
\* for every media Message it stored and moved past, and a call that stored
\* its events is answered 200 "ok".
C14_MediaDetached ==
    \A h \in Handlers :
        /\ wh[h].pc \notin {"idle", "done"} => ENABLED PostIngest(h) \/ ENABLED PostCreateMetaProvider(h)
        /\ \A k \in DOMAIN wh[h].tasks :
              \E i \in DOMAIN mediaTasks : mediaTasks[i].messageId = wh[h].tasks[k]
        /\ (wh[h].pc = "done" /\ wh[h].verified /\ wh[h].events # <<>>) =>
              wh[h].status = 200 /\ wh[h].body = "ok"

\* a call was answered 200 "ok" with one of its two tasks failed and the other
\* not yet begun
C14_Witness ==
    /\ wh[1].pc = "done" /\ wh[1].status = 200 /\ wh[1].body = "ok"
    /\ Len(wh[1].tasks) = 2
    /\ \E i, j \in TasksOf(wh[1]) :
          mediaTasks[i].state = "failed" /\ mediaTasks[j].state = "pending"

\* handler h is at the lookup of an event whose provider message id is stored
AtDuplicate(h) ==
    /\ wh[h].pc = "getMessageByProviderMessageId"
    /\ getMessageByProviderMessageId(wh[h].events[wh[h].idx].providerMessageId) # {}

\* C15: the dedup skip is a no-op on state. The step a handler takes from the
\* lookup of an event whose providerMessageId is stored leaves every
\* Conversation (lastAt included), every Message, the audit log, the broadcasts
\* and the media tasks as they were.
C15_SkipIsNoOp ==
    [][\A h \in Handlers :
          (AtDuplicate(h) /\ wh'[h] # wh[h]) =>
              UNCHANGED <<conversations, messages, webhookEvents, clock, wsClients,
                          inbox, published, mediaTasks>>]_vars

\* the first event of a batch was skipped as a duplicate and the second is
\* being looked up
C15_Witness ==
    /\ wh[1].skipped = <<1>> /\ wh[1].idx = 2
    /\ wh[1].pc = "getMessageByProviderMessageId"
    /\ wh[1].created = <<>> /\ wh[1].bcasts = <<>> /\ wh[1].logged = 0
    /\ messages # <<>>

(***************************************************************************)
(* SpecConv: webhook POSTs, send requests and POST /api/conversations      *)
(* calls for the same phone numbers, their handlers interleaving.          *)
(***************************************************************************)
ConvPosts == {Plain(POne)}

ConvSends == {SendReq("p1", 0, "hi", NoMediaUrl, 0)}

ConvRequests ==
    {ConvReq(PhoneInput(TRUE, 1, "p1")), ConvReq(PhoneInput(TRUE, 0, "p2")),
     ConvReq(PhoneInput(FALSE, 0, ""))}

InitConv ==
    /\ config = CfgEnvNoSecret
    /\ InitStorageEmpty
    /\ InitHubEmpty
    /\ InitHandlers
    /\ InitPinsEmpty
    /\ faultsLeft = 0

NextConv ==
    \/ \E r \in ConvPosts : PostStart(1, r)
    \/ PostCreateMetaProvider(1)
    \/ PostIngest(1)
    \/ PostCatch(1)
    \/ \E r \in ConvSends : SendStart(1, r)
    \/ SendGetConversationByPhone(1)
    \/ SendCreateConversation(1)
    \/ SendCreateMetaProvider(1)
    \/ SendDispatch(1, "ok")
    \/ SendCreateMessage(1)
    \/ SendUpdateLastAt(1)
    \/ SendRespondAndBroadcast(1, 0)
    \/ \E h \in Handlers :
          \/ \E r \in ConvRequests : ConvStart(h, r)
          \/ ConvGetConversationByPhone(h)
          \/ ConvCreateConversation(h)

SpecConv == InitConv /\ [][NextConv]_vars

\* the phone a handler in the middle of a call works for, "" when it has none
PhoneOfPost(s) == IF s.idx \in DOMAIN s.events THEN s.events[s.idx].from ELSE ""

Rejecting(s) == s.pc = "log401" \/ (s.pc = "done" /\ s.status = 401)

\* C17: a webhook POST answered 401 creates no Conversation, no Message, no
\* broadcast and no media task; only the audit log changes, by the one
\* record of the rejection.
C17_RejectedIsNoOp ==
    /\ [](\A h \in Handlers :
             Rejecting(wh[h]) =>
                 /\ wh[h].created = <<>> /\ wh[h].conv = 0 /\ wh[h].msg = 0
                 /\ wh[h].bcasts = <<>> /\ wh[h].tasks = <<>>
                 /\ wh[h].logged = IF wh[h].pc = "done" THEN 1 ELSE 0)
    /\ [][\A h \in Handlers :
             (wh'[h] # wh[h] /\ Rejecting(wh'[h])) =>
                 /\ UNCHANGED <<conversations, messages, clock, wsClients, readyState, inbox,
                                published, mediaTasks>>
                 /\ webhookEvents' = IF wh'[h].pc = "done"
                                     THEN Append(webhookEvents,
                                                 AuditRecord("POST", 401, "Invalid signature", 0))
                                     ELSE webhookEvents]_vars

\* after a delivery that was accepted and stored, a delivery with a wrong
\* signature was answered 401: the store holds what the first one left
C17_Witness ==
    /\ wh[1].pc = "done" /\ wh[1].status = 401 /\ ~wh[1].verified
    /\ Len(messages) = 1 /\ Len(conversations) = 1 /\ Len(published) = 1
    /\ Len(webhookEvents) = 2
    /\ webhookEvents[2] = AuditRecord("POST", 401, "Invalid signature", 0)

(***************************************************************************)
(* SpecVerify: verifyWebhookSignature called on requests of every shape,   *)
(* against providers with and without an app secret.                       *)
(***************************************************************************)
VerifyConfigs == {CfgInstanceSecret, CfgEnvSecret, CfgEnvNoSecret, CfgBare, CfgNoVerify}

VerifyHeaders ==
    UNION {SigHeaders(raw) : raw \in SigRaws}
    \cup {Header(TRUE, <<PrefixTok>> \o HmacHex("secA", Raw(POne, 0)) \o <<JunkTok>>),
          Header(TRUE, <<PrefixTok, PrefixTok>> \o HmacHex("secA", Raw(POne, 0))),
          Header(TRUE, <<JunkTok, PrefixTok>> \o HmacHex("secA", Raw(POne, 0)))}

InitVerify ==
    /\ config \in VerifyConfigs
    /\ InitStorageEmpty
    /\ InitHubEmpty
    /\ InitHandlers
    /\ InitPinsEmpty
    /\ faultsLeft = 0

NextVerify ==
    /\ probe = NoProbe
    /\ \E header \in VerifyHeaders, rawBody \in SigRaws :
          ProbeVerifyWebhookSignature(header, rawBody)

SpecVerify == InitVerify /\ [][NextVerify]_vars

\* C18: verifyWebhookSignature fails open without an app secret: it returns
\* true for every request, the header absent, well-formed or malformed; with
\* a secret configured and the header absent it returns false.
C18_FailOpenWithoutSecret ==
    probe.fn = "verifyWebhookSignature" =>
        LET appSecret == createMetaProvider(config).appSecret
        IN /\ Falsy(appSecret) => probe.result = TRUE
           /\ (~Falsy(appSecret) /\ (~probe.header.present \/ probe.header.toks = <<>>)) =>
                 probe.result = FALSE

\* without a secret, a request with a malformed header was accepted
C18_Witness ==
    /\ probe.fn = "verifyWebhookSignature"
    /\ Falsy(createMetaProvider(config).appSecret)
    /\ probe.header = Header(TRUE, <<PrefixTok, JunkTok>>)
    /\ probe.result = TRUE

\* C40: verifyWebhookSignature never throws: with an app secret configured
\* every call with the header present returns a boolean, false for a value of
\* the wrong length (where crypto.timingSafeEqual throws), of the wrong digest
\* or without the prefix and with wrong content, and true only when the header
\* with the sha256= substring removed equals the hex HMAC-SHA256 of the raw
\* body.
C40_VerifyNeverThrows ==
    LET appSecret == createMetaProvider(config).appSecret
    IN (/\ probe.fn = "verifyWebhookSignature"
        /\ ~Falsy(appSecret)
        /\ probe.header.present) =>
          LET given == ReplacePrefix(probe.header.toks)
              expected == HmacHex(appSecret, probe.rawBody)
          IN /\ probe.result \in BOOLEAN
             /\ ByteLength(given) # ByteLength(expected) => probe.result = FALSE
             /\ given # expected => probe.result = FALSE
             /\ probe.result = TRUE => given = expected

\* with a secret, a header longer than a digest (the prefix twice) was refused
C40_Witness ==
    /\ probe.fn = "verifyWebhookSignature"
    /\ createMetaProvider(config).appSecret = "secA"
    /\ probe.rawBody = Raw(POne, 0)
    /\ probe.header = Header(TRUE, <<PrefixTok, PrefixTok>> \o HmacHex("secA", Raw(POne, 0)))
    /\ probe.result = FALSE

(***************************************************************************)
(* SpecKind: MetaProvider.send called with bodies and media URLs of every  *)
(* shape.                                                                  *)
(***************************************************************************)
KindHosts == {<<>>, <<"h", ".", "com">>}
KindDirs == {<<>>, <<"/", "media">>, <<"/", "d", ".", "png">>}
KindBases == {<<"a">>, <<>>, <<"a", ".", "tar">>}
KindExts == {"none", "", "jpg", "JPG", "webp", "mp4", "Mov", "mp3", "mpeg", "OGG", "Pdf", "csv",
             "heic", "EXE"}
KindQueries == {<<>>, <<"?", "expires">>, <<"?", "/", "f", ".", "png">>}
KindFragments == {<<>>, <<"#", "t", ".", "mp4">>, <<"#", "t", "?", "y", ".", "mp3">>}

KindTrails == {<<>>, <<"/">>}

\* the file name is not empty: a name without a base has an extension
KindUrls ==
    {NoUrl} \cup
    {u \in {Url(host, dirs, base, ext, trail, query, fragment) :
               host \in KindHosts, dirs \in KindDirs, base \in KindBases, ext \in KindExts,
               trail \in KindTrails, query \in KindQueries, fragment \in KindFragments} :
        u.base # <<>> \/ u.ext \notin {"none", ""}}

InitKind ==
    /\ config \in {CfgEnvNoSecret, CfgBare}
    /\ InitStorageEmpty
    /\ InitHubEmpty
    /\ InitHandlers
    /\ InitPinsEmpty
    /\ faultsLeft = 0

NextKind ==
    /\ probe = NoProbe
    /\ \E body \in {"hi", "", "undefined"}, u \in KindUrls : ProbeSend(body, u)

SpecKind == InitKind /\ [][NextKind]_vars

\* the file extension of a URL, lower case: "none" when the file name (the
\* last segment of the path that is not empty) has no dot, ends with its
\* dot, or begins with its only dot
FileExtension(u) ==
    IF u.ext \in {"none", ""} \/ u.base = <<>> THEN "none" ELSE toLowerCase(u.ext)

\* the kind of an extension by the four fixed sets, document otherwise
KindOfExtension(e) ==
    IF <<".", e>> \in asImage THEN "image"
    ELSE IF <<".", e>> \in asVideo THEN "video"
    ELSE IF <<".", e>> \in asAudio THEN "audio"
    ELSE "document"

\* C19: the payload of send has, for every media URL, the type of the URL's
\* file extension (query and fragment stripped, case-insensitive) by the
\* fixed sets, document for any other or missing extension, and links the
\* URL as given; with no media URL and a body the type is text.
C19_KindByExtension ==
    (probe.fn = "send" /\ ~probe.threw) =>
        /\ probe.url.present =>
              /\ probe.payload.type = KindOfExtension(FileExtension(probe.url))
              /\ probe.payload.link = UrlString(probe.url)
        /\ (~probe.url.present /\ ~Falsy(probe.body)) =>
              probe.payload.type = "text" /\ probe.payload.text = probe.body

\* a signed path of this server with an upper-case extension, a query and a
\* fragment that both hold other extensions, sent as an image
C19_Witness ==
    /\ probe.fn = "send" /\ ~probe.threw
    /\ probe.url = Url(<<>>, <<"/", "media">>, <<"a">>, "JPG", <<>>,
                       <<"?", "/", "f", ".", "png">>, <<"#", "t", "?", "y", ".", "mp3">>)
    /\ probe.payload.type = "image"

(***************************************************************************)
(* SpecRoute: GET /media/* requests with signatures of every standing, for *)
(* files that are stored and files that are not, their handlers            *)
(* interleaving.                                                           *)
(***************************************************************************)
RouteRequests ==
    {MediaReq(signature, relativePath) :
        signature \in {"valid", "expired", "missing", "tampered"},
        relativePath \in {"", "a.jpg", "gone.jpg"}}

SendFileOutcomes == {"ok", "ENOENT", "error", "errorAfterHeaders"}

InitRoute ==
    /\ config = CfgEnvNoSecret
    /\ InitStorageEmpty
    /\ InitHubEmpty
    /\ InitHandlers
    /\ InitPinsEmpty
    /\ faultsLeft = 1

NextRoute ==
    \E h \in Handlers :
        \/ \E r \in RouteRequests, resolves \in BOOLEAN : MediaStart(h, r, resolves)
        \/ MediaAccess(h)
        \/ MediaAccessThrows(h)
        \/ \E outcome \in SendFileOutcomes : MediaSendFile(h, outcome)

SpecRoute == InitRoute /\ [][NextRoute]_vars

\* C20: on the media route nothing touches the file system (path
\* resolution, fs.access, sendFile) unless verifySignedUrl found the request
\* valid; a request found invalid is answered with the status and message of
\* the validation at once, and nothing else is done.
C20_MediaRouteGated ==
    /\ [](\A h \in Handlers :
             /\ md[h].io # <<>> => verifySignedUrl(md[h].req).valid
             /\ (md[h].pc # "idle" /\ ~verifySignedUrl(md[h].req).valid) =>
                   /\ md[h].pc = "done" /\ md[h].io = <<>>
                   /\ md[h].status = verifySignedUrl(md[h].req).status
                   /\ md[h].body = verifySignedUrl(md[h].req).message)
    /\ [][\A h \in Handlers :
             (md'[h] # md[h] /\ ~verifySignedUrl(md'[h].req).valid) =>
                 UNCHANGED <<config, pn, pins, storageVars, hubVars, mediaTasks, wh, gv, sd, cv, probe,
                             faultsLeft>>]_vars

\* one request for a stored file was served; another for the same file, its
\* signature expired, was answered 410 with no file-system access
C20_Witness ==
    \E h1, h2 \in Handlers :
        /\ md[h1].pc = "done" /\ md[h1].status = 200 /\ md[h1].body = "file"
        /\ md[h1].io = <<"resolveAbsoluteMediaPath", "access", "sendFile">>
        /\ md[h2].pc = "done" /\ md[h2].req = MediaReq("expired", md[h1].req.relativePath)
        /\ md[h2].status = 410 /\ md[h2].io = <<>>

\* C21: for every Message at most one media acquisition task is ever
\* started, in every interleaving of webhook POST calls that redeliver the
\* same events; a task is started only for a stored inbound Message with media.
C21_OneMediaTaskPerMessage ==
    /\ \A i, j \in DOMAIN mediaTasks :
          mediaTasks[i].messageId = mediaTasks[j].messageId => i = j
    /\ \A i \in DOMAIN mediaTasks :
          /\ mediaTasks[i].messageId \in DOMAIN messages
          /\ messages[mediaTasks[i].messageId].direction = "inbound"
          /\ ~messages[mediaTasks[i].messageId].media.isNull

\* the image event was delivered three times, by handlers that overlapped:
\* one call stored it and started its task, the others skipped it or were
\* refused, and there is the one task
C21_Witness ==
    /\ started = 3
    /\ \A h \in Handlers : wh[h].pc = "done"
    /\ \E h \in Handlers : wh[h].tasks # <<>>
    /\ \E h \in Handlers : wh[h].skipped # <<>> /\ wh[h].tasks = <<>>
           /\ \E k \in Range(wh[h].skipped) : wh[h].events[k].media.present
    /\ Len(mediaTasks) = 1
    /\ Cardinality({m \in DOMAIN messages : ~messages[m].media.isNull}) = 1

(***************************************************************************)
(* SpecPersist: webhook POSTs, one after another, whose events are text,   *)
(* media with and without their media object, and of an unknown type.      *)
(***************************************************************************)
MsgImageBare == Msg("p1", "wamid.D", "image", FALSE)
MsgAudioE == Msg("p2", "wamid.E", "audio", TRUE)
\* an image without its image object, and an audio
PBare == Payload(TRUE, <<Entry(TRUE, <<Change(TRUE, <<MsgImageBare, MsgAudioE>>)>>)>>)

PersistRequests == {Plain(PTwo), Plain(PNoId), Plain(PBare)}

InitPersist ==
    /\ config = CfgEnvNoSecret
    /\ InitStorageEmpty
    /\ InitHubEmpty
    /\ InitHandlers
    /\ InitPinsEmpty
    /\ faultsLeft = 0

NextPersist ==
    \/ \E r \in PersistRequests : PostStart(1, r)
    \/ PostCreateMetaProvider(1)
    \/ PostIngest(1)

SpecPersist == InitPersist /\ [][NextPersist]_vars

\* the Message m is what the handler persists for the event
PersistedFor(m, event) ==
    /\ m.direction = "inbound" /\ m.status = "received" /\ m.replyToMessageId = 0
    /\ IF event.media.present
       THEN ~m.media.isNull /\ m.media.status = "pending" /\ m.media.origin = "whatsapp"
       ELSE m.media = NullMedia

\* C22: every Message the webhook POST handler persists is inbound, received
\* and no reply, and its media is a pending descriptor exactly when the event
\* carries a media stub, and null otherwise.
C22_PersistedShape ==
    /\ [](\A i \in DOMAIN messages :
             /\ messages[i].direction = "inbound" /\ messages[i].status = "received"
             /\ messages[i].replyToMessageId = 0
             /\ messages[i].media = NullMedia \/ messages[i].media.status = "pending")
    /\ [][\A h \in Handlers :
             (wh[h].pc = "createMessage" /\ wh'[h].pc = "logWebhookEvent") =>
                 /\ Len(messages') = Len(messages) + 1
                 /\ wh'[h].msg = Len(messages')
                 /\ PersistedFor(messages'[Len(messages')], wh[h].events[wh[h].idx])]_vars

\* a call stored an image event that came without its image object, with
\* null media, and an audio event with a pending descriptor
C22_Witness ==
    /\ wh[1].pc = "done" /\ wh[1].req = Plain(PBare) /\ Len(wh[1].created) = 2
    /\ messages[wh[1].created[1]].media = NullMedia
    /\ messages[wh[1].created[2]].media.status = "pending"
    /\ messages[wh[1].created[2]].media.type = "audio"
    /\ wh[1].tasks = <<wh[1].created[2]>>

UnconfiguredChallenge(q) ==
    /\ q.mode = "subscribe" /\ q.challenge # "undefined"
    /\ ConfiguredVerifyToken(config) = ""

\* C24: a subscribe GET with a challenge, received while no verify token is
\* configured, is answered 500 and appends a WebhookEvent that records
\* status 500, whatever hub.verify_token it carries, empty and absent included.
C24_MissingVerifyToken ==
    /\ [](\A h \in Handlers :
             (gv[h].pc = "done" /\ UnconfiguredChallenge(gv[h].req)) =>
                 gv[h].status = 500 /\ gv[h].logged = 1)
    /\ [][\A h \in Handlers :
             (gv[h].pc # "done" /\ gv'[h].pc = "done" /\ UnconfiguredChallenge(gv'[h].req)) =>
                 /\ Len(webhookEvents') = Len(webhookEvents) + 1
                 /\ webhookEvents'[Len(webhookEvents')].kind = "GET"
                 /\ webhookEvents'[Len(webhookEvents')].status = 500]_vars

\* without a verify token anywhere, a subscribe GET with an empty
\* hub.verify_token was answered 500 and recorded
C24_Witness ==
    /\ ConfiguredVerifyToken(config) = "" /\ ~createMetaProviderThrows(config)
    /\ gv[1].pc = "done" /\ gv[1].req = GetReq("subscribe", "123", "")
    /\ gv[1].status = 500
    /\ webhookEvents # <<>>
    /\ webhookEvents[Len(webhookEvents)] =
          AuditRecord("GET", 500, "Missing verify token configuration", 0)

\* the request names a conversation, or a reply target, that the store lacks
UnknownReference(s) ==
    \/ s.req.conversationId # 0 /\ getConversationById(s.req.conversationId) = {}
    \/ /\ s.req.replyToMessageId # 0 /\ getMessageById(s.req.replyToMessageId) = {}
       /\ s.req.conversationId # 0 \/ ~Falsy(s.req.to)
       /\ ~Falsy(s.req.body) \/ s.req.media_url.present

\* C25 as claimed: a send request that names an unknown conversation or an
\* unknown reply target is answered 404, nothing is dispatched and no Message
\* is persisted.
C25_UnknownReferenceIs404 ==
    \A h \in Handlers :
        (sd[h].pc = "done" /\ UnknownReference(sd[h])) =>
            /\ sd[h].status = 404
            /\ sd[h].dispatched = 0
            /\ sd[h].created = <<>>

\* neither body nor media_url, or neither conversationId nor to
InvalidSend(r) ==
    \/ Falsy(r.body) /\ ~r.media_url.present
    \/ r.conversationId = 0 /\ Falsy(r.to)

\* C26: a send request with neither body nor media_url, or with neither
\* conversationId nor to, is answered 400, and the call changes no state: no
\* Conversation is created, nothing is dispatched, no Message is persisted and
\* nothing is broadcast.
C26_InvalidSendIsNoOp ==
    /\ [](\A h \in Handlers :
            (sd[h].pc # "idle" /\ InvalidSend(sd[h].req)) =>
                /\ sd[h].pc = "done"
                /\ sd[h].status = 400
                /\ sd[h].dispatched = 0
                /\ sd[h].created = <<>>
                /\ sd[h].createdConv = <<>>
                /\ sd[h].bcasts = <<>>)
    /\ [][\A h \in Handlers :
            (sd'[h] # sd[h] /\ InvalidSend(sd'[h].req)) =>
                UNCHANGED <<storageVars, hubVars, mediaTasks>>]_vars

\* a request to a phone without a Conversation, with no body and no media, has
\* been answered 400 and the store has no Conversation of the phone
C26_Witness ==
    \E h \in Handlers :
        /\ sd[h].pc = "done" /\ sd[h].status = 400
        /\ sd[h].req.to = "p3" /\ Falsy(sd[h].req.body)
        /\ getConversationByPhone("p3") = {}

(***************************************************************************)
(* SpecWs: WebSockets connect, start closing, close and fail while webhook *)
(* POSTs are ingested and published; every send returns.                   *)
(***************************************************************************)
InitWs ==
    /\ config = CfgEnvNoSecret
    /\ InitStorageEmpty
    /\ InitHubEmpty
    /\ InitHandlers
    /\ InitPinsEmpty
    /\ faultsLeft = 0

\* the deliveries stop one call short of MaxCalls: a redelivery of the same
\* payload only repeats the lookups
NextWs ==
    \/ \E c \in Clients : WsConnect(c) \/ WsClosing(c) \/ WsClose(c) \/ WsError(c)
    \/ started < MaxCalls - 1 /\ PostStart(1, Plain(PTwo))
    \/ PostCreateMetaProvider(1)
    \/ PostIngest(1)

SpecWs == InitWs /\ [][NextWs]_vars

\* the WebSockets that have connected and emitted neither 'close' nor 'error'
Connected ==
    {c \in Clients : "connection" \in wsEvents[c]
                      /\ "close" \notin wsEvents[c] /\ "error" \notin wsEvents[c]}

\* C27: wsClients is exactly the set of connections that have connected and
\* not yet emitted close or error, each held once; an observer is never in the
\* set after its close or error event, whatever connects, closes, fails or is
\* published in between.
C27_ClientsAreTheConnected ==
    /\ Range(wsClients) = Connected
    /\ Cardinality(Range(wsClients)) = Len(wsClients)

\* an event was published to an observer and another observer has failed: the
\* set holds the one still connected
C27_Witness ==
    /\ \E c, d \in Clients :
          /\ c # d
          /\ "error" \in wsEvents[c]
          /\ wsClients = <<d>>
          /\ Len(inbox[d]) > 0
    /\ published # <<>>

\* C28: a publish sends one and the same {event, data} envelope to every
\* registered observer whose readyState is OPEN and to no other, each recipient
\* once per publish; nothing else is ever sent to an observer.
C28_BroadcastToOpen ==
    [][IF published' # published
       THEN /\ Len(published') = Len(published) + 1
            /\ \A c \in Clients :
                  inbox'[c] =
                     IF c \in Range(wsClients) /\ readyState[c] = "OPEN"
                     THEN Append(inbox[c], Envelope(published'[Len(published')].event,
                                                    published'[Len(published')].data))
                     ELSE inbox[c]
       ELSE inbox' = inbox]_vars

\* two events were published while one registered observer was OPEN and the
\* other was closing: the first has the two envelopes, the second has nothing
C28_Witness ==
    \E c, d \in Clients :
        /\ Len(published) = 2
        /\ \A j \in DOMAIN published :
              published[j].clientsAfter = {c, d} /\ published[j].open = {d}
        /\ Len(inbox[d]) = 2
        /\ inbox[d][1] # inbox[d][2]
        /\ inbox[c] = <<>>

(***************************************************************************)
(* SpecParse: parseIncoming applied twice, at two readings of the wall     *)
(* clock, to payloads of every shape: no entry, entries without changes,   *)
(* changes without messages, messages of every type with and without a     *)
(* usable timestamp.                                                       *)
(***************************************************************************)
MsgAudioF == Msg("p1", "wamid.F", "audio", TRUE)

ParseMsgs ==
    {MsgTextA, MsgAt(MsgImageB, "undefined"), MsgAt(MsgSticker, "abc"),
     MsgAt(MsgNoId, ""), MsgAt(MsgAudioF, "9")}

ParseMsgSeqs ==
    {<<>>} \cup {<<a>> : a \in ParseMsgs} \cup {<<a, b>> : a, b \in ParseMsgs}

ParseChanges == {Change(FALSE, <<>>)} \cup {Change(TRUE, ms) : ms \in ParseMsgSeqs}

FewChanges ==
    {Change(FALSE, <<>>), Change(TRUE, <<MsgTextA>>), Change(TRUE, <<MsgAt(MsgSticker, "abc")>>)}

ParseEntries ==
    {Entry(FALSE, <<>>), Entry(TRUE, <<>>)}
    \cup {Entry(TRUE, <<c>>) : c \in ParseChanges}
    \cup {Entry(TRUE, <<c, d>>) : c \in ParseChanges, d \in FewChanges}

FewEntries ==
    {Entry(FALSE, <<>>), Entry(TRUE, <<Change(TRUE, <<MsgAt(MsgImageB, "undefined")>>)>>),
     Entry(TRUE, <<Change(FALSE, <<>>), Change(TRUE, <<MsgAt(MsgAudioF, "9")>>)>>)}

ParsePayloads ==
    {Payload(FALSE, <<>>), Payload(TRUE, <<>>)}
    \cup {Payload(TRUE, <<e>>) : e \in ParseEntries}
    \cup {Payload(TRUE, <<e, f>>) : e \in ParseEntries, f \in FewEntries}

InitParse ==
    /\ config = CfgEnvNoSecret
    /\ InitStorageEmpty
    /\ InitHubEmpty
    /\ InitHandlers
    /\ InitPinsEmpty
    /\ faultsLeft = 0

NextParse ==
    /\ probe = NoProbe
    /\ \E payload \in ParsePayloads, at1, at2 \in Times :
          ProbeParseIncoming(payload, at1, at2)

SpecParse == InitParse /\ [][NextParse]_vars

\* C29 as claimed: parseIncoming applied to one payload at any two times
\* returns the same sequence of events with the same field values, the
\* timestamp of each event included.
C29_ParseIncomingIsPureAsClaimed ==
    probe.fn = "parseIncoming" => probe.first = probe.second

\* C29: parseIncoming applied to one payload at any two times returns
\* sequences of events of the same length that agree in every field but the
\* timestamp; the timestamps agree, and are the message's epoch seconds, when
\* the timestamp field of the message is a finite number, and each is the time
\* of its own call when the field is missing or not a number.
C29_ParseIncomingPureButForNow ==
    probe.fn = "parseIncoming" =>
        /\ Len(probe.first) = Len(probe.second)
        /\ \A i \in DOMAIN probe.first :
              LET a == probe.first[i]
                  b == probe.second[i]
                  seconds == Number(a.raw.timestamp)
              IN /\ [a EXCEPT !.timestamp = b.timestamp] = b
                 /\ IF seconds.finite
                    THEN /\ a.timestamp = toISOString(seconds.v * 1000)
                         /\ b.timestamp = a.timestamp
                    ELSE /\ a.timestamp = toISOString(probe.at1)
                         /\ b.timestamp = toISOString(probe.at2)

\* two calls at different times on a payload with a message that has its epoch
\* seconds and a message without the field: the first event is the same in the
\* two results, the second is stamped with the time of each call
C29_Witness ==
    /\ probe.fn = "parseIncoming"
    /\ probe.at1 # probe.at2
    /\ Len(probe.first) = 2
    /\ probe.first[1].raw.timestamp = "5"
    /\ probe.first[1] = probe.second[1]
    /\ probe.first[2].raw.timestamp = "undefined"
    /\ probe.first[2].timestamp # probe.second[2].timestamp

\* where the messages of a payload are: entry, change, message
MessagePositions(payload) ==
    IF ~payload.hasEntry THEN {}
    ELSE UNION {IF ~payload.entry[e].hasChanges THEN {}
                ELSE UNION {IF ~payload.entry[e].changes[c].hasMessages THEN {}
                            ELSE {<<e, c, m>> :
                                    m \in DOMAIN payload.entry[e].changes[c].messages} :
                            c \in DOMAIN payload.entry[e].changes} :
                e \in DOMAIN payload.entry}

MessageAt(payload, pos) == payload.entry[pos[1]].changes[pos[2]].messages[pos[3]]

\* payload order
Before(p, q) ==
    \/ p[1] < q[1]
    \/ p[1] = q[1] /\ p[2] < q[2]
    \/ p[1] = q[1] /\ p[2] = q[2] /\ p[3] < q[3]

RankOf(payload, pos) ==
    1 + Cardinality({q \in MessagePositions(payload) : Before(q, pos)})

\* C30: parseIncoming returns exactly one event per element of every
\* entry[].changes[].value.messages[], in payload order, the messages of
\* unrecognized type included (as an event with no body and no media); entries
\* without changes and changes without messages contribute nothing.
C30_OneEventPerMessage ==
    probe.fn = "parseIncoming" =>
        LET events == probe.first
            positions == MessagePositions(probe.payload)
        IN /\ Len(events) = Cardinality(positions)
           /\ \A pos \in positions :
                 LET msg == MessageAt(probe.payload, pos)
                     event == events[RankOf(probe.payload, pos)]
                 IN /\ event.raw = msg
                    /\ event.from = msg.from
                    /\ event.providerMessageId = msg.id
                    /\ msg.type \notin MediaTypes \cup {"text"} =>
                          event.body = "undefined" /\ ~event.media.present

\* a payload of two entries, the first with a change without messages after a
\* text and a sticker, the second with an audio: three events in that order
C30_Witness ==
    /\ probe.fn = "parseIncoming"
    /\ Len(probe.payload.entry) = 2
    /\ Len(probe.payload.entry[1].changes) = 2
    /\ ~probe.payload.entry[1].changes[2].hasMessages
    /\ Len(probe.first) = 3
    /\ probe.first[1].raw.type = "text"
    /\ probe.first[2].raw.type = "sticker"
    /\ probe.first[2].body = "undefined" /\ ~probe.first[2].media.present
    /\ probe.first[3].raw.type = "audio"

(***************************************************************************)
(* SpecBoth: webhook POSTs with and without media are ingested while       *)
(* messages with and without media are sent; every collaborator call       *)
(* returns and no media task runs.                                         *)
(***************************************************************************)
BothSends ==
    {SendReq("p2", 0, "undefined", MediaUrl(TRUE, TRUE, "a.jpg", "jpg"), 0),
     SendReq("p3", 0, "hi", MediaUrl(TRUE, FALSE, "README", ""), 0)}

InitBoth ==
    /\ config = CfgEnvNoSecret
    /\ InitStorageEmpty
    /\ InitHubEmpty
    /\ InitHandlers
    /\ InitPinsEmpty
    /\ faultsLeft = 0

NextBoth ==
    \/ PostStart(1, Plain(PBare))
    \/ PostCreateMetaProvider(1)
    \/ PostIngest(1)
    \/ \E r \in BothSends : SendStart(1, r)
    \/ SendGetConversationByPhone(1)
    \/ SendCreateConversation(1)
    \/ SendCreateMetaProvider(1)
    \/ SendDispatch(1, "ok")
    \/ SendCreateMessage(1)
    \/ SendUpdateLastAt(1)
    \/ SendRespondAndBroadcast(1, 0)

SpecBoth == InitBoth /\ [][NextBoth]_vars

\* the descriptor invariant of MessageMedia
DescriptorInvariant(media) ==
    \/ media.isNull
    \/ /\ media.status = "pending" =>
             /\ media.url = "null" /\ media.thumbnailUrl = "null"
             /\ media.previewUrl = "null" /\ media.downloadAttempts = 0
       /\ media.url # "null" => media.status = "ready"

\* C31: every media descriptor built by the ingestion and the send path
\* satisfies the descriptor invariant: pending descriptors have url,
\* thumbnailUrl and previewUrl null and downloadAttempts 0, and only ready
\* descriptors have a url; the ingestion path builds pending descriptors, the
\* send path ready ones.
C31_DescriptorInvariant ==
    \A m \in DOMAIN messages :
        /\ DescriptorInvariant(messages[m].media)
        /\ ~messages[m].media.isNull =>
              messages[m].media.status =
                 (IF messages[m].direction = "inbound" THEN "pending" ELSE "ready")

\* the store holds an inbound Message with a pending descriptor and an
\* outbound Message with a ready descriptor and its url
C31_Witness ==
    \E m, n \in DOMAIN messages :
        /\ messages[m].direction = "inbound" /\ ~messages[m].media.isNull
        /\ messages[m].media.status = "pending" /\ messages[m].media.url = "null"
        /\ messages[n].direction = "outbound" /\ ~messages[n].media.isNull
        /\ messages[n].media.status = "ready" /\ messages[n].media.url # "null"

\* the Conversation of the Message was touched after the Message was created
LastAtFollows(m) ==
    conversations[messages[m].conversationId].lastAt > messages[m].createdAt

\* C32: when a handler has persisted a Message and answers with success (the
\* webhook POST with 200, the send endpoint with 200), the lastAt of the
\* Message's Conversation has been updated after the Message was created and
\* before the response.
C32_LastAtBeforeSuccess ==
    \A h \in Handlers :
        /\ (wh[h].pc = "done" /\ wh[h].status = 200) =>
              \A i \in DOMAIN wh[h].created : LastAtFollows(wh[h].created[i])
        /\ (sd[h].pc = "done" /\ sd[h].status = 200) =>
              \A i \in DOMAIN sd[h].created : LastAtFollows(sd[h].created[i])

\* a webhook POST that persisted two Messages and a send that persisted one
\* have both been answered 200
C32_Witness ==
    \E h \in Handlers :
        /\ wh[h].pc = "done" /\ wh[h].status = 200 /\ Len(wh[h].created) = 2
        /\ sd[h].pc = "done" /\ sd[h].status = 200 /\ Len(sd[h].created) = 1
        /\ LastAtFollows(sd[h].created[1])

\* the Message was announced as message_incoming
Announced(m) ==
    \E j \in DOMAIN published :
        published[j].event = "message_incoming" /\ published[j].data = m

\* a media acquisition task was started for the Message
TaskStarted(m) == \E i \in DOMAIN mediaTasks : mediaTasks[i].messageId = m

\* C33 as claimed: when the redelivery of a payload that was answered 500 is
\* answered 200, the provider stops redelivering; by then every persisted
\* inbound Message of the payload has been broadcast as message_incoming and
\* every one with pending media has had its media acquisition task started.
C33_NotifiedAfterRetry ==
    (wh[1].pc = "done" /\ wh[1].retry /\ wh[1].status = 200) =>
        \A i \in DOMAIN wh[1].events :
            \A m \in MessagesOf(wh[1].events[i]) :
                /\ Announced(m)
                /\ (~messages[m].media.isNull /\ messages[m].media.status = "pending") =>
                      TaskStarted(m)

\* C34 as claimed: every webhook POST call that has run to its end has been
\* answered, with 200, 401 or 500, whatever the storage calls it made did.
C34_AlwaysAnswered ==
    \A h \in Handlers : wh[h].pc = "done" => wh[h].status \in {200, 401, 500}

\* C35: for every Message, no message_media_updated broadcast of the Message
\* is issued before its message_incoming broadcast, however the detached
\* media task is scheduled against the webhook handler.
C35_IncomingBeforeMediaUpdated ==
    \A j \in DOMAIN published :
        published[j].event = "message_media_updated" =>
            \E i \in 1..(j - 1) :
                /\ published[i].event = "message_incoming"
                /\ published[i].data = published[j].data

\* the media task of the first Message of a call reported a status after the
\* Message was announced and before the handler announced the second Message
C35_Witness ==
    \E i, j, k \in DOMAIN published :
        /\ i < j /\ j < k
        /\ published[i].event = "message_incoming"
        /\ published[j].event = "message_media_updated"
        /\ published[j].data = published[i].data
        /\ published[k].event = "message_incoming"
        /\ published[k].data # published[i].data

(***************************************************************************)
(* SpecNoId: payloads that each hold one event without provider message id *)
(* (a text, a text next to a sticker with id, an image) are delivered one  *)
(* after another, every storage call returning.                            *)
(***************************************************************************)
MsgNullId == Msg("p1", "null", "text", TRUE)
MsgImageNoId == Msg("p1", "undefined", "image", TRUE)

PNullId == Payload(TRUE, <<Entry(TRUE, <<Change(TRUE, <<MsgNullId>>)>>)>>)
PImageNoId == Payload(TRUE, <<Entry(TRUE, <<Change(TRUE, <<MsgImageNoId>>)>>)>>)

NoIdRequests == {Plain(PNoId), Plain(PNullId), Plain(PImageNoId)}

InitNoId ==
    /\ config = CfgEnvNoSecret
    /\ InitStorageEmpty
    /\ InitHubEmpty
    /\ InitHandlers
    /\ InitPinsEmpty
    /\ faultsLeft = 0

NextNoId ==
    \/ \E r \in NoIdRequests : PostStart(1, r)
    \/ PostCreateMetaProvider(1)
    \/ PostIngest(1)

SpecNoId == InitNoId /\ [][NextNoId]_vars

\* the stored Messages without provider message id
MessagesWithoutId ==
    {m \in DOMAIN messages :
        messages[m].direction = "inbound" /\ messages[m].providerMessageId = "null"}

\* C36: an event without a providerMessageId is never deduplicated. Each
\* delivery of a payload that holds such an event creates a new Message and a
\* new message_incoming broadcast for it: between calls, after n deliveries
\* of payloads with one such event each, there are n Messages without id, each
\* announced once, and no delivery has looked such an event up or skipped it.
C36_NoIdNeverDeduplicated ==
    /\ wh[1].pc \in {"idle", "done"} =>
          /\ Cardinality(MessagesWithoutId) = started
          /\ \A m \in MessagesWithoutId :
                Cardinality({j \in DOMAIN published :
                                published[j].event = "message_incoming"
                                /\ published[j].data = m}) = 1
    /\ \A i \in DOMAIN wh[1].events :
          Falsy(wh[1].events[i].providerMessageId) =>
              /\ \A k \in DOMAIN wh[1].skipped : wh[1].skipped[k] # i
              /\ \A k \in DOMAIN wh[1].log :
                    wh[1].log[k].op = "lookup" => wh[1].log[k].idx # i

\* the same payload, a text without id next to a sticker with id, was delivered
\* three times: three Messages without id, and the sticker skipped in the third
C36_Witness ==
    /\ wh[1].pc = "done" /\ wh[1].status = 200
    /\ started = 3
    /\ wh[1].skipped = <<2>>
    /\ Cardinality(MessagesWithoutId) = 3
    /\ Len(messages) = 4

\* C37 as claimed: a send request that is rejected with a 4xx response has left
\* storage unchanged: the call created no Conversation and no Message.
C37_RejectedSendLeavesStorage ==
    \A h \in Handlers :
        (sd[h].pc = "done" /\ sd[h].status \in 400..499) =>
            /\ sd[h].createdConv = <<>>
            /\ sd[h].created = <<>>

(***************************************************************************)
(* SpecAgree: the send handler's two readings of a media_url, for every    *)
(* extension that either reading knows and one that neither knows.         *)
(***************************************************************************)
AgreeExts ==
    {"jpg", "jpeg", "png", "gif", "webp", "heic", "heif", "svg",
     "mp4", "mov", "m4v", "webm", "avi", "mkv",
     "mp3", "wav", "m4a", "ogg", "aac", "mpeg",
     "pdf", "doc", "docx", "xls", "xlsx", "ppt", "pptx", "txt", "csv", "zip", "rar", "7z",
     "exe"}

InitAgree ==
    /\ config = CfgEnvNoSecret
    /\ InitStorageEmpty
    /\ InitHubEmpty
    /\ InitHandlers
    /\ InitPinsEmpty
    /\ faultsLeft = 0

NextAgree ==
    /\ probe = NoProbe
    /\ \E body \in {"hi", "undefined"}, local \in BOOLEAN, ext \in AgreeExts :
          ProbeOutbound(body, MediaUrl(TRUE, local, "a." \o ext, ext))

SpecAgree == InitAgree /\ [][NextAgree]_vars

\* C38 as claimed: for every media file extension the media type stored on
\* the outbound Message agrees with the kind dispatched to the provider: image,
\* video and audio coincide, and the stored types document and unknown both
\* go with the dispatched kind document.
C38_StoredTypeAgreesWithKind ==
    probe.fn = "outbound" =>
        \/ probe.stored \in {"image", "video", "audio"} /\ probe.payload.type = probe.stored
        \/ probe.stored \in {"document", "unknown"} /\ probe.payload.type = "document"

(***************************************************************************)
(* SpecPin: pin and unpin requests of a user who holds nine pins, running  *)
(* side by side, every storage call returning.                             *)
(***************************************************************************)
PinPhones == <<"p1", "p2", "p3", "p4", "p5", "p6", "p7", "p8", "p9", "p10", "p11", "p12">>

PinnedAtStart == {<<"u1", c>> : c \in {1, 2, 3, 4, 5, 6, 7, 8, 9}} \cup {<<"u2", 1>>}

PinRequests ==
    {PinReq("u1", id, PinnedInput(TRUE, pinned)) : id \in {9, 10, 11}, pinned \in BOOLEAN}
    \cup {PinReq("u1", 99, PinnedInput(TRUE, TRUE)),
          PinReq("u1", 10, PinnedInput(FALSE, FALSE)),
          PinReq("none", 10, PinnedInput(TRUE, TRUE)),
          PinReq("u2", 10, PinnedInput(TRUE, TRUE))}

InitPin ==
    /\ config = CfgEnvNoSecret
    /\ conversations = [i \in DOMAIN PinPhones |-> [id |-> i, phone |-> PinPhones[i], lastAt |-> i]]
    /\ messages = <<>>
    /\ webhookEvents = <<>>
    /\ clock = Len(PinPhones)
    /\ InitHubEmpty
    /\ InitHandlers
    /\ pins = PinnedAtStart
    /\ faultsLeft = 0

NextPin ==
    \/ \E h \in Handlers, r \in PinRequests : PinStart(h, r)
    \/ \E h \in Handlers : PinStep(h)

SpecPin == InitPin /\ [][NextPin]_vars

PinUsers == {"u1", "u2"}

\* the pin limit: no user holds more than ten pins
PinLimitHolds ==
    \A u \in PinUsers : countPinnedConversations(u) <= MAX_PINNED_CONVERSATIONS

\* a pin request that finds its conversation not pinned and ten pins counted
\* is answered 400 and writes nothing
PinAtLimitIs400(h) ==
    (/\ pn[h].pc = "countPinnedConversations"
     /\ pn'[h] # pn[h]
     /\ countPinnedConversations(pn[h].req.user) >= MAX_PINNED_CONVERSATIONS) =>
        /\ pn'[h].pc = "done" /\ pn'[h].status = 400
        /\ pn'[h].wrote = <<>>
        /\ UNCHANGED <<pins, storageVars>>

\* a pin request that finds its conversation pinned already is answered 200
RepinSucceeds(h) ==
    (pn[h].pc = "done" /\ pn[h].alreadyPinned) => pn[h].status = 200

\* C39 as claimed: after any sequence and any interleaving of pin and unpin
\* requests no user has more than 10 pinned conversations; a pin request for
\* a conversation not yet pinned, made while the user has 10 pins, is answered
\* 400 and changes nothing; pinning a conversation that is pinned already
\* succeeds.
C39_PinLimit ==
    /\ [](PinLimitHolds /\ \A h \in Handlers : RepinSucceeds(h))
    /\ [][\A h \in Handlers : PinAtLimitIs400(h)]_vars


====
